---- MODULE Spec2Model ----
(***************************************************************************)
(* State-machine model of BD_Analyzer.py (back-drill record analysis):     *)
(* the coordinate codec (parseNumber, packPos, prgPos), the machining-log  *)
(* parser (loadBackDrillData), the outlier detector (calc_outliers) and    *)
(* the shift detector (getIntPos, judgeShift, calc_shift).                 *)
(*                                                                         *)
(* Representation of Python values                                         *)
(*   None            the empty tuple <<>>                                  *)
(*   str             a tuple of one-character strings, <<"X","0","1">>     *)
(*   coordinate      an integer in units of 1/Unit (1e-4): one decimal     *)
(*                   digit below the 1e-3 grid the program rounds to, so   *)
(*                   that int(round(x*1000)) is a real rounding            *)
(*   depth value     an IEEE double, held exactly as <<hi, lo>> with value *)
(*                   (hi * 2^30 + lo) * 2^-59                              *)
(***************************************************************************)
EXTENDS Integers, Sequences, FiniteSets, TLC

None == <<>>

Abs(n) == IF n < 0 THEN -n ELSE n

Ok(v) == <<"ok", v>>

Err(e) == <<"err", e>>

IsOk(r) == r[1] = "ok"

(***************************************************************************)
(* Strings as tuples of characters.                                        *)
(***************************************************************************)
DigitChar == <<"0", "1", "2", "3", "4", "5", "6", "7", "8", "9">>

IsDigit(c) == \E d \in 1..10 : DigitChar[d] = c

CharVal(c) == (CHOOSE d \in 1..10 : DigitChar[d] = c) - 1

AllDigits(s) == \A i \in 1..Len(s) : IsDigit(s[i])

RECURSIVE Pow10(_)
Pow10(n) == IF n <= 0 THEN 1 ELSE 10 * Pow10(n - 1)

\* int(s) / float(s) of a digit string: its decimal value.
RECURSIVE DigitsValue(_)
DigitsValue(s) ==
    IF s = <<>> THEN 0
    ELSE 10 * DigitsValue(SubSeq(s, 1, Len(s) - 1)) + CharVal(s[Len(s)])

\* str(n) for n >= 0.
RECURSIVE IntToStr(_)
IntToStr(n) ==
    IF n < 10 THEN <<DigitChar[n + 1]>>
    ELSE IntToStr(n \div 10) \o <<DigitChar[(n % 10) + 1]>>

\* s.rjust(w, '0')
RECURSIVE RJust0(_, _)
RJust0(s, w) == IF Len(s) >= w THEN s ELSE RJust0(<<"0">> \o s, w)

\* s.rstrip('0')
RECURSIVE RStrip0(_)
RStrip0(s) ==
    IF s # <<>> /\ s[Len(s)] = "0" THEN RStrip0(SubSeq(s, 1, Len(s) - 1)) ELSE s

\* re.sub(r'(^\s+|\s+$)', '', s)
RECURSIVE StripSpaces(_)
StripSpaces(s) ==
    IF s # <<>> /\ s[1] = " " THEN StripSpaces(Tail(s))
    ELSE IF s # <<>> /\ s[Len(s)] = " " THEN StripSpaces(SubSeq(s, 1, Len(s) - 1))
    ELSE s

(***************************************************************************)
(* Numbers.  Scale is the factor of int(round(x*1000)); Limit is pow(10,3) *)
(* of prgPos; Width is the rjust width.                                    *)
(***************************************************************************)
Scale == 1000

Limit == 1000

Width == 6

IntDigits == 3

Unit == 10 * Scale

\* The fractional digits of a digit string, in units of 1/Unit (digits
\* below 1e-4 are outside the representation and never occur in the inputs).
RECURSIVE FracValue(_, _)
FracValue(s, place) ==
    IF s = <<>> \/ place = 0 THEN 0
    ELSE CharVal(s[1]) * place + FracValue(Tail(s), place \div 10)

\* Python 3 round(): to the nearest integer, ties to even; n / d with d > 0.
\* The inputs below never sit on a tie, where the binary value of the
\* double would decide.
RoundDiv(n, d) ==
    LET q == n \div d
        r == n % d
    IN  IF 2 * r < d THEN q
        ELSE IF 2 * r > d THEN q + 1
        ELSE IF q % 2 = 0 THEN q ELSE q + 1

\* int(round(x*1000)) of a coordinate x held in units of 1/Unit.
RoundScale(x) == RoundDiv(x, Unit \div Scale)

\* float(s) of a text with a decimal point: [-]digits.digits
floatOfText(s) ==
    LET neg  == s # <<>> /\ s[1] = "-"
        body == IF neg THEN Tail(s) ELSE s
        dots == {i \in 1..Len(body) : body[i] = "."}
    IN  IF Cardinality(dots) # 1 THEN Err("ValueError")
        ELSE LET k  == CHOOSE i \in dots : TRUE
                 ip == SubSeq(body, 1, k - 1)
                 fp == SubSeq(body, k + 1, Len(body))
             IN  IF ~AllDigits(ip) \/ ~AllDigits(fp) \/ (ip = <<>> /\ fp = <<>>)
                 THEN Err("ValueError")
                 ELSE Ok((IF neg THEN -1 ELSE 1)
                         * (DigitsValue(ip) * Unit + FracValue(fp, Unit \div 10)))

\* parseNumber(s, length, lead_zero); float('') and float of a non-digit text
\* raise ValueError.
parseNumber(s0, length, lead_zero) ==
    IF s0 = <<>> THEN Ok(0)
    ELSE LET s1 == StripSpaces(s0)
         IN  IF \E i \in 1..Len(s1) : s1[i] = "." THEN floatOfText(s1)
             ELSE IF s1 = <<>> THEN Err("IndexError")
             ELSE LET sign == IF s1[1] = "-" THEN -1 ELSE 1
                      s    == IF s1[1] = "-" THEN Tail(s1) ELSE s1
                  IN  IF s = <<>> \/ ~AllDigits(s) THEN Err("ValueError")
                      ELSE IF lead_zero
                      THEN IF Len(s) < length
                           THEN Ok(sign * DigitsValue(s) * Pow10(length - Len(s)) * Unit)
                           ELSE Ok(sign * (DigitsValue(SubSeq(s, 1, length)) * Unit
                                     + FracValue(SubSeq(s, length + 1, Len(s)), Unit \div 10)))
                      ELSE Ok(sign * RoundDiv(DigitsValue(s) * Unit, Pow10(length)))

\* An argument of packPos is a str or a number.
Str(s) == <<"str", s>>

Num(v) == <<"num", v>>

\* packPos(x, y): the key is struct.pack('<ii', x, y), which is one-to-one on
\* pairs of 32-bit integers, so the pair itself stands for the byte string.
packPos(x, y) ==
    LET fx == IF x[1] = "str" THEN parseNumber(x[2], IntDigits, TRUE) ELSE Ok(x[2])
        fy == IF y[1] = "str" THEN parseNumber(y[2], IntDigits, TRUE) ELSE Ok(y[2])
    IN  IF ~IsOk(fx) THEN fx
        ELSE IF ~IsOk(fy) THEN fy
        ELSE Ok(<<RoundScale(fx[2]), RoundScale(fy[2])>>)

\* The range test of prgPos.
prgPosTooLarge_StrictlyGreater(x, y) == Abs(x) > Limit * Unit \/ Abs(y) > Limit * Unit

prgPosTooLarge(x, y) == Abs(x) >= Limit * Unit \/ Abs(y) >= Limit * Unit

\* One coordinate of prgPos: sign, then the digits of abs(int(round(x*1000))).
prgDigits(x) ==
    LET sign == IF x < 0 THEN <<"-">> ELSE <<>>
        d    == RStrip0(RJust0(IntToStr(Abs(RoundScale(x))), Width))
    IN  sign \o (IF d = <<>> THEN <<"0">> ELSE d)

\* prgPos(x, y): the position line, or ValueError.
prgPos(x, y) ==
    IF prgPosTooLarge(x, y) THEN Err("ValueError")
    ELSE Ok(<<"X">> \o prgDigits(x) \o <<"Y">> \o prgDigits(y))

\* -?\d*
IsSignedDigits(s) ==
    IF s # <<>> /\ s[1] = "-" THEN AllDigits(Tail(s)) ELSE AllDigits(s)

\* posPattern = ^X(-?\d*)Y(-?\d*)$ : the two groups, or None.
posPattern(line) ==
    LET ks == {k \in 2..Len(line) :
                  /\ line[1] = "X"
                  /\ line[k] = "Y"
                  /\ IsSignedDigits(SubSeq(line, 2, k - 1))
                  /\ IsSignedDigits(SubSeq(line, k + 1, Len(line)))}
    IN  IF ks = {} THEN None
        ELSE LET k == CHOOSE k \in ks : TRUE
             IN  <<SubSeq(line, 2, k - 1), SubSeq(line, k + 1, Len(line))>>

(***************************************************************************)
(* Depth values: IEEE doubles held exactly.  <<hi, lo>> is the double      *)
(* (hi * Limb + lo) * 2^-59.  Every double in [2^-7, 2) is such a pair,    *)
(* and for a, b in [1, 2) the subtraction a - b is exact (no rounding),    *)
(* so abs(a - b) > tol is decided here as the program decides it.          *)
(***************************************************************************)
Limb == 2^30

\* float(val) of the depth texts used as inputs, keyed by the text's value
\* in thousandths: "1.0", "1.02", "1.5", "1.51", "1.01", "1.49", "0".
floatOfDepth(m) ==
    CASE m = 1000 -> <<536870912, 0>>
      [] m = 1020 -> <<547608330, 257698048>>
      [] m = 1500 -> <<805306368, 0>>
      [] m = 1510 -> <<810675077, 128849024>>
      [] m = 1010 -> <<542239621, 128849024>>
      [] m = 1490 -> <<799937658, 944892800>>
      [] m = 0    -> <<0, 0>>

\* The tolerance as a double: 0.01, 0.02 and 0.48.
floatOfTol(m) ==
    CASE m = 10  -> <<5368709, 128849019>>
      [] m = 20  -> <<10737418, 257698038>>
      [] m = 480 -> <<257698037, 816043776>>

DLess(a, b) == a[1] < b[1] \/ (a[1] = b[1] /\ a[2] < b[2])

\* a - b for a >= b
DSub(a, b) ==
    IF a[2] - b[2] < 0 THEN <<a[1] - b[1] - 1, a[2] - b[2] + Limb>>
    ELSE <<a[1] - b[1], a[2] - b[2]>>

\* abs(a - b)
DAbsDiff(a, b) == IF DLess(a, b) THEN DSub(b, a) ELSE DSub(a, b)

\* Python truth value of a depth cell: None, '' and 0.0 are false.
Truthy(c) ==
    /\ c # None
    /\ (c[1] = "str" => c[2] # <<>>)
    /\ (c[1] = "num" => c[2] # <<0, 0>>)

\* data[i][z], with Python's 0-based indices.
Cell(d, i, z) == d[i + 1][z + 1]

(***************************************************************************)
(* calc_outliers.                                                          *)
(***************************************************************************)
Axes == 0..5

\* z in range(6, 23, 3) for the weight column col = round((z-6)/3)
AxisColumn(col) == 6 + 3 * col

\* lines 207-208: both values are truthy and differ by more than tol
Disagree(d, i, j, z, t) ==
    /\ Truthy(Cell(d, i, z))
    /\ Truthy(Cell(d, j, z))
    /\ DLess(t, DAbsDiff(Cell(d, i, z)[2], Cell(d, j, z)[2]))

\* weight = [[0]*6 for each record]
ZeroWeight(n) == [k \in 1..n |-> [c \in 1..6 |-> 0]]

OutlierPair_OnlyFirst(w, d, i, st, t) ==
    [k \in 1..Len(w) |-> [c \in 1..6 |->
        IF k = i + 1 /\ Disagree(d, i, i + st, AxisColumn(c - 1), t)
        THEN w[k][c] + 1 ELSE w[k][c]]]

\* lines 204-210: one pass of the for-z loop for the pair (i, i+step)
OutlierPair(w, d, i, st, t) ==
    [k \in 1..Len(w) |-> [c \in 1..6 |->
        IF k \in {i + 1, i + st + 1} /\ Disagree(d, i, i + st, AxisColumn(c - 1), t)
        THEN w[k][c] + 1 ELSE w[k][c]]]

WhileGuard_OffByOne(length, st, i) == i < length - st - 1

\* line 202: while i < length-step
WhileGuard(length, st, i) == i < length - st

(***************************************************************************)
(* loadBackDrillData: cells, rows and the per-row steps.                   *)
(*   Txt(v)  a cell whose text matches ^[-+]?\d+\.?\d*$ and denotes v      *)
(*   Str(s)  any other text (the time of day, an empty cell)               *)
(*   Num(v)  a number: the int of r[1], or float(val)                      *)
(* The hole counter is the machine's 16-bit counter: 0 <= N <= 65535.      *)
(***************************************************************************)
Txt(v) == <<"txt", v>>

WrapAt == 65535

WrapSpan == 65536

Columns == 23

\* line 153: '{}/{} {}'.format(month, day, r[0])
Stamp(month, day, cell) == Str(month \o <<"/">> \o day \o <<" ">> \o cell[2])

\* line 157: last_H and current_H < last_H (None and 0 are false)
CounterFell(last, current) ==
    /\ last # None
    /\ last[2] # 0
    /\ current < last[2]

NewBase_KeepOnRestart(last, b, current) ==
    IF CounterFell(last, current) /\ last[2] = WrapAt THEN b + WrapSpan ELSE b

NewBase_WrapIsRestart(last, b, current) ==
    IF CounterFell(last, current) THEN 0 ELSE b

\* lines 157-161: base after the row
NewBase(last, b, current) ==
    IF CounterFell(last, current)
    THEN IF last[2] = WrapAt THEN b + WrapSpan ELSE 0
    ELSE b

NewFlag_Never(last, current) == FALSE

\* lines 150, 157-162: flag after the row
NewFlag(last, current) == CounterFell(last, current) /\ last[2] # WrapAt

\* lines 166-171: float(val) of a numeric text; beyond column 4 a zero is None
Coerce(idx, c) ==
    IF c # None /\ c[1] = "txt"
    THEN IF idx > 4 /\ c[2] = <<0, 0>> THEN None ELSE Num(c[2])
    ELSE c

\* lines 174-175: while len(r) < 23: r.append(None)
Pad(r) == [c \in 1..(IF Len(r) < Columns THEN Columns ELSE Len(r)) |->
              IF c <= Len(r) THEN r[c] ELSE None]

\* lines 153-175: the row as it is stored, given the base after lines 157-161
StoredRow(row, month, day, b) ==
    Pad([c \in 1..Len(row) |->
            IF c = 1 THEN Stamp(month, day, row[1])
            ELSE IF c = 2 THEN Num(row[2][2] + b)
            ELSE Coerce(c - 1, row[c])])

\* line 180: same hole as the previous record
SameHole(r0, r) == r0[2] = r[2] /\ r0[4] = r[4] /\ r0[5] = r[5]

MergeInto_Overwrite(r0, r) ==
    [c \in 1..Len(r0) |-> IF c >= 6 /\ c <= Columns THEN r[c] ELSE r0[c]]

\* lines 181-182: r0[c] = r[c] or r0[c] for c in range(5, 23)
MergeInto(r0, r) ==
    [c \in 1..Len(r0) |->
        IF c >= 6 /\ c <= Columns
        THEN (IF Truthy(r[c]) THEN r[c] ELSE r0[c])
        ELSE r0[c]]

\* flags[key] = idx
DictSet(dict, key, idx) ==
    [k \in (DOMAIN dict) \cup {key} |-> IF k = key THEN idx ELSE dict[k]]

EmptyDict == [k \in {} |-> 0]

\* line 145: the header is recognised
HeaderOk(h) == ~(h[1] <= 8 \/ h[2] # "#Date" \/ h[3] # "N")

\* The paths of the model, in Python's string order (files.sort()).
PathOrder == <<"d/pos0101.dat", "d/pos0102.dat", "d/readme.dat">>

PathRank(name) == CHOOSE k \in 1..Len(PathOrder) : PathOrder[k] = name

\* filePattern = .*pos(\d\d)(\d\d)\.dat$ : (month, day), or None
filePattern(name) ==
    CASE name = "d/pos0101.dat" -> <<<<"0", "1">>, <<"0", "1">>>>
      [] name = "d/pos0102.dat" -> <<<<"0", "1">>, <<"0", "2">>>>
      [] OTHER -> None

\* files.sort()
SortFiles(fs) == SortSeq(fs, LAMBDA a, b : PathRank(a) < PathRank(b))

(***************************************************************************)
(* State.                                                                  *)
(***************************************************************************)
VARIABLES
    cpc,        \* codec: "idle", "start", "formatted", "decoded"
    cx,         \* codec: the x passed to prgPos
    cy,         \* codec: the y passed to prgPos
    cline,      \* codec: what prgPos returned (Ok(line) or Err)
    cback,      \* codec: the coordinates parsed back from the line
    opc,        \* calc_outliers: "idle", "start", "loop", "done"
    data,       \* calc_outliers: the record list
    lag,        \* calc_outliers: lag
    tol,        \* calc_outliers: tol, a double
    weight,     \* calc_outliers: weight
    step,       \* calc_outliers: step of the for loop
    i,          \* calc_outliers: i of the while loop
    lpc,        \* loadBackDrillData: "idle", "start", "file", "rows", "done", "raised"
    files,      \* loadBackDrillData: the list object passed by the caller
    disk,       \* the file system: path -> [exists, header, rows]
    fidx,       \* loadBackDrillData: position of the for loop over files
    month,      \* loadBackDrillData: month of the open file
    day,        \* loadBackDrillData: day of the open file
    pos,        \* loadBackDrillData: rows of the open file read so far
    last_H,     \* loadBackDrillData: last_H
    base,       \* loadBackDrillData: base
    result,     \* loadBackDrillData: result
    flags,      \* loadBackDrillData: flags
    flagged,    \* loadBackDrillData: the value of flag when result[k] was appended
    lerr,       \* loadBackDrillData: the exception raised, or None
    spc,        \* calc_shift: "idle", "prg", "data", "done", "raised"
    prg,        \* calc_shift: the lines of prg_file
    pln,        \* calc_shift: lines of prg_file read so far
    curTool,    \* calc_shift: curTool
    prg_pos,    \* calc_shift: prg_pos
    sample,     \* calc_shift: sample
    records,    \* calc_shift: the record list passed as data
    ridx,       \* calc_shift: records visited by the for loop
    data_pos,   \* calc_shift: data_pos
    shiftXY,    \* calc_shift: the value returned, None until then
    ppc,        \* loadPrgData: "idle", "scan", "done", "raised"
    plines,     \* loadPrgData: the lines of the file
    pidx,       \* loadPrgData: lines read so far
    prgTool,    \* loadPrgData: curTool
    tools,      \* loadPrgData: tools
    m18,        \* loadPrgData: m18
    tool_size,   \* loadPrgData: tool_size
    wdata,      \* MainWindow: self.data
    wresult,    \* MainWindow: self.result
    toolPos,    \* MainWindow: self.toolPos
    toolSize,   \* MainWindow: self.toolSize
    toolDepth,  \* MainWindow: self.toolDepth
    posShifted, \* MainWindow: self.posShifted
    prgFilePath,\* MainWindow: the text of prgFilePath
    orig,       \* history: self.data as select_data stored it
    applied,    \* history: the shifts show_plot applied to self.data since
    written,    \* the lines of the file output_prg wrote last, or None
    plotted,    \* MainWindow: the number of points in self.plot, each
                \* holding its index into self.data
    raised,     \* the exception the last handler ended with, or None
    clicks,     \* the number of handlers run
    wpc,        \* output_prg: "idle", "start", "holes", "done", "raised"
    widx,       \* output_prg: i of the for loop
    wcur,       \* output_prg: curTool
    wout,       \* output_prg: the lines written to f
    whdr,       \* output_prg: the number of lines copied from the program
    threshold,  \* output_prg: optJudgeHolesCount.value()
    mask,       \* output_prg: chkSP1..chkSP6.isChecked()
    werr        \* output_prg: the exception caught, or None

codecVars == <<cpc, cx, cy, cline, cback>>

outVars == <<opc, data, lag, tol, weight, step, i>>

logVars == <<lpc, files, disk, fidx, month, day, pos, last_H, base, result, flags,
             flagged, lerr>>

shiftVars == <<spc, prg, pln, curTool, prg_pos, sample, records, ridx, data_pos, shiftXY>>

prgVars == <<ppc, plines, pidx, prgTool, tools, m18, tool_size>>

winVars == <<wdata, wresult, toolPos, toolSize, toolDepth, posShifted, prgFilePath,
             orig, applied, written, plotted, raised, clicks>>

writerVars == <<wpc, widx, wcur, wout, whdr, threshold, mask, werr>>

vars == <<codecVars, outVars, logVars, shiftVars, prgVars, winVars, writerVars>>

ShiftIdle ==
    /\ spc = "idle"
    /\ prg = <<>>
    /\ pln = 0
    /\ curTool = None
    /\ prg_pos = <<>>
    /\ sample = 0
    /\ records = <<>>
    /\ ridx = 0
    /\ data_pos = <<>>
    /\ shiftXY = None

PrgIdle ==
    /\ ppc = "idle"
    /\ plines = <<>>
    /\ pidx = 0
    /\ prgTool = None
    /\ tools = EmptyDict
    /\ m18 = EmptyDict
    /\ tool_size = EmptyDict

\* lines 293-298: the window as __init__ leaves it
WinIdle ==
    /\ wdata = <<>>
    /\ wresult = <<>>
    /\ toolPos = EmptyDict
    /\ toolSize = EmptyDict
    /\ toolDepth = EmptyDict
    /\ posShifted = FALSE
    /\ prgFilePath = ""
    /\ orig = <<>>
    /\ applied = <<>>
    /\ written = None
    /\ plotted = 0
    /\ raised = None
    /\ clicks = 0

WriterIdle ==
    /\ wpc = "idle"
    /\ widx = 0
    /\ wcur = None
    /\ wout = <<>>
    /\ whdr = 0
    /\ threshold = 0
    /\ mask = <<>>
    /\ werr = None

LogIdle ==
    /\ lpc = "idle"
    /\ files = <<>>
    /\ disk = <<>>
    /\ fidx = 0
    /\ month = <<>>
    /\ day = <<>>
    /\ pos = 0
    /\ last_H = None
    /\ base = 0
    /\ result = <<>>
    /\ flags = <<>>
    /\ flagged = <<>>
    /\ lerr = None

CodecIdle ==
    /\ cpc = "idle"
    /\ cx = 0
    /\ cy = 0
    /\ cline = None
    /\ cback = None

OutIdle ==
    /\ opc = "idle"
    /\ data = <<>>
    /\ lag = 0
    /\ tol = <<0, 0>>
    /\ weight = <<>>
    /\ step = 0
    /\ i = 0

(***************************************************************************)
(* The codec: prgPos writes a position line (output_prg, line 405) and the *)
(* program reader parses it back (loadPrgData, lines 100-103).             *)
(***************************************************************************)
\* Coordinates handed to prgPos: every integer 0 <= d < 1000, and values
\* around zero, around the 1e-3 grid and around the range limit.
CodecXs ==
    {d * Unit : d \in 0..(Limit - 1)}
    \cup {4, -4, 6, -6, 5000, -5000, 1234560, -1200000, 9999994, 9999996,
          -9999996, 10000000, -10000000, 10000004}

CodecYs == {0, 15000, -1234560, 9999996, 10000000, -6}

InitCodec ==
    /\ cpc = "start"
    /\ cx \in CodecXs
    /\ cy \in CodecYs
    /\ cline = None
    /\ cback = None
    /\ OutIdle
    /\ LogIdle
    /\ ShiftIdle
    /\ PrgIdle
    /\ WinIdle
    /\ WriterIdle

\* prgPos(hole[3], hole[4])
PrgPos ==
    /\ cpc = "start"
    /\ cline' = prgPos(cx, cy)
    /\ cpc' = "formatted"
    /\ UNCHANGED <<cx, cy, cback, outVars, logVars, shiftVars, prgVars, winVars, writerVars>>

\* isPos = posPattern.match(line); x, y = isPos.groups(); parseNumber of each
ParseLine ==
    /\ cpc = "formatted"
    /\ IsOk(cline)
    /\ posPattern(cline[2]) # None
    /\ cback' = <<parseNumber(posPattern(cline[2])[1], IntDigits, TRUE),
                  parseNumber(posPattern(cline[2])[2], IntDigits, TRUE)>>
    /\ cpc' = "decoded"
    /\ UNCHANGED <<cx, cy, cline, outVars, logVars, shiftVars, prgVars, winVars, writerVars>>

NextCodec == PrgPos \/ ParseLine

SpecCodec == InitCodec /\ [][NextCodec]_vars

(***************************************************************************)
(* C9: codec round trip.  For every (x, y) that prgPos accepts, the X and  *)
(* Y digit strings of the emitted line decode (digitCount 3, leading zero) *)
(* to the original x and y within 0.001, and packPos of the re-parsed      *)
(* strings equals packPos(x, y).  The code breaks this for                 *)
(* 999.9995 <= |x| < 1000: the range test passes, the rounded value has    *)
(* seven digits and rstrip leaves "1".                                     *)
(***************************************************************************)
C9_RoundTrip ==
    cpc = "decoded" =>
        /\ IsOk(cback[1]) /\ IsOk(cback[2])
        /\ Abs(cback[1][2] - cx) <= Unit \div Scale
        /\ Abs(cback[2][2] - cy) <= Unit \div Scale
        /\ packPos(Str(posPattern(cline[2])[1]), Str(posPattern(cline[2])[2]))
             = packPos(Num(cx), Num(cy))

\* The part of C9 the code does satisfy: every integer 0 <= d < 1000.
C9_IntegersRoundTrip ==
    (cpc = "decoded" /\ cx \in {d * Unit : d \in 0..(Limit - 1)}) =>
        /\ cback[1] = Ok(cx)
        /\ packPos(Str(posPattern(cline[2])[1]), Str(<<"0">>)) = packPos(Num(cx), Num(0))

(***************************************************************************)
(* C10: prgPos raises the range error if and only if abs(x) >= 1000 or     *)
(* abs(y) >= 1000; for every other input it returns a position line.       *)
(***************************************************************************)
C10_RangeErrorIff ==
    cpc # "start" =>
        /\ (cline = Err("ValueError")) <=> (Abs(cx) >= Limit * Unit \/ Abs(cy) >= Limit * Unit)
        /\ (cline # Err("ValueError")) => (IsOk(cline) /\ posPattern(cline[2]) # None)

\* The limit itself is refused, and a value just below it is accepted.
C10_Witness ==
    /\ cpc = "formatted"
    /\ cx = Limit * Unit
    /\ cy = 0
    /\ cline = Err("ValueError")

(***************************************************************************)
(* calc_outliers(data, lag, tol), one action per loop iteration.           *)
(***************************************************************************)
MaxRecs == 4

MaxLag == 2

\* A record of 23 columns with depth cells in columns 6 and 21 only.
OutRec(v0, v5) ==
    [c \in 1..23 |-> IF c = 7 THEN v0 ELSE IF c = 22 THEN v5 ELSE None]

Depth(m) == Num(floatOfDepth(m))

\* Records as loadBackDrillData leaves them: a depth cell is None, a
\* non-zero float, or the text of an empty cell.
OutRecs ==
    { OutRec(Depth(1000), None),
      OutRec(Depth(1020), Depth(1500)),
      OutRec(Depth(1500), Depth(1000)),
      OutRec(Str(<<>>), Depth(1500)) }

\* Axis values [1.0, 1.02, 1.5, 1.51] on a single axis.
ExampleData ==
    <<OutRec(Depth(1000), None), OutRec(Depth(1020), None),
      OutRec(Depth(1500), None), OutRec(Depth(1510), None)>>

OutInputs ==
    UNION {[1..n -> OutRecs] : n \in 0..MaxRecs} \cup {ExampleData}

InitOutliers ==
    /\ opc = "start"
    /\ data \in OutInputs
    /\ lag \in 0..MaxLag
    /\ tol \in {floatOfTol(10), floatOfTol(480)}
    /\ weight = <<>>
    /\ step = 0
    /\ i = 0
    /\ CodecIdle
    /\ LogIdle
    /\ ShiftIdle
    /\ PrgIdle
    /\ WinIdle
    /\ WriterIdle

\* lines 193-200: the zero matrix, then step = 1
OutlierStart ==
    /\ opc = "start"
    /\ weight' = ZeroWeight(Len(data))
    /\ step' = 1
    /\ i' = 0
    /\ opc' = "loop"
    /\ UNCHANGED <<data, lag, tol, codecVars, logVars, shiftVars, prgVars, winVars, writerVars>>

\* lines 202-211: one iteration of the while loop
OutlierIter ==
    /\ opc = "loop"
    /\ step <= lag
    /\ WhileGuard(Len(data), step, i)
    /\ weight' = OutlierPair(weight, data, i, step, tol)
    /\ i' = i + 1
    /\ UNCHANGED <<opc, data, lag, tol, step, codecVars, logVars, shiftVars, prgVars, winVars, writerVars>>

\* lines 200-202: the while loop ends, next step
OutlierNextStep ==
    /\ opc = "loop"
    /\ step <= lag
    /\ ~WhileGuard(Len(data), step, i)
    /\ step' = step + 1
    /\ i' = 0
    /\ UNCHANGED <<opc, data, lag, tol, weight, codecVars, logVars, shiftVars, prgVars, winVars, writerVars>>

\* line 212: return weight
OutlierReturn ==
    /\ opc = "loop"
    /\ step > lag
    /\ opc' = "done"
    /\ UNCHANGED <<data, lag, tol, weight, step, i, codecVars, logVars, shiftVars, prgVars, winVars, writerVars>>

NextOutliers == OutlierStart \/ OutlierIter \/ OutlierNextStep \/ OutlierReturn

SpecOutliers == InitOutliers /\ [][NextOutliers]_vars

\* The weights of one axis, as a tuple over the records.
AxisWeights(a) == [k \in 1..Len(weight) |-> weight[k][a + 1]]

ExampleRun == data = ExampleData /\ lag = 2 /\ tol = floatOfTol(10)

\* The pass with step = 1 (the pairs (0,1), (1,2), (2,3)) is over.
AfterStepOne == opc = "loop" /\ step = 2 /\ i = 0

(***************************************************************************)
(* C5 as stated: with lag = 2 and tolerance 0.01 on [1.0, 1.02, 1.5, 1.51] *)
(* only the pair (1, 2) counts a disagreement, the pairs (0, 1) and (2, 3) *)
(* count none: after the pass over the adjacent pairs the weights would be *)
(* [0, 1, 1, 0].                                                           *)
(***************************************************************************)
C5_OnlyMiddlePair == (ExampleRun /\ AfterStepOne) => AxisWeights(0) = <<0, 1, 1, 0>>

(***************************************************************************)
(* C5 amended: on that input each of the pairs (0, 1), (1, 2) and (2, 3)   *)
(* counts a disagreement (0.02 > 0.01, 0.48 > 0.01, and in doubles         *)
(* 1.51 - 1.5 = 0.010000000000000009 > 0.01): after the pass over the      *)
(* adjacent pairs the weights are [1, 2, 2, 1], and [2, 3, 3, 2] at the    *)
(* end.                                                                    *)
(***************************************************************************)
C5_EveryAdjacentPair ==
    /\ (ExampleRun /\ AfterStepOne) => AxisWeights(0) = <<1, 2, 2, 1>>
    /\ (ExampleRun /\ opc = "done") => AxisWeights(0) = <<2, 3, 3, 2>>

C5_Witness == ExampleRun /\ opc = "done" /\ AxisWeights(0) = <<2, 3, 3, 2>>

(***************************************************************************)
(* C6: the result of calc_outliers has one row of six counters per record, *)
(* and weight[i][a] is the number of indices j with 1 <= |i - j| <= lag    *)
(* such that both records have a present value in column 6 + 3a and the    *)
(* two values differ by strictly more than the tolerance.                  *)
(***************************************************************************)
C6_Present(c) == c # None /\ c[1] = "num"

C6_Count(idx, a) ==
    Cardinality({j \in 0..(Len(data) - 1) :
        /\ 1 <= Abs(idx - j)
        /\ Abs(idx - j) <= lag
        /\ C6_Present(data[idx + 1][7 + 3 * a])
        /\ C6_Present(data[j + 1][7 + 3 * a])
        /\ DLess(tol, DAbsDiff(data[idx + 1][7 + 3 * a][2], data[j + 1][7 + 3 * a][2]))})

C6_ReferenceCount ==
    opc = "done" =>
        /\ Len(weight) = Len(data)
        /\ \A k \in 1..Len(data) :
              /\ Len(weight[k]) = 6
              /\ \A a \in Axes : weight[k][a + 1] = C6_Count(k - 1, a)

\* A run with lag 2 over three records or more, one of them with an absent
\* value, in which some record disagrees with two others.
C6_Witness ==
    /\ opc = "done"
    /\ lag = 2
    /\ Len(data) >= 3
    /\ \E k \in 1..Len(data) : data[k][7] = Str(<<>>)
    /\ \E k \in 1..Len(data) : weight[k][1] = 2
    /\ \E k \in 1..Len(data) : weight[k][6] >= 1

(***************************************************************************)
(* loadBackDrillData(files), one action per file step and per row.         *)
(***************************************************************************)
MaxRows == 3

GoodHeader == <<9, "#Date", "N">>

\* X/Y texts of two holes, in units of 1/Unit.
HoleP == <<Txt(100000), Txt(200000)>>

HoleQ == <<Txt(105000), Txt(200000)>>

\* The 18 cells of columns 5..22: unused stations read "0".
FieldsA == [c \in 1..18 |-> IF c = 1 THEN Txt(floatOfDepth(1000))
                            ELSE IF c = 2 THEN Txt(floatOfDepth(1500))
                            ELSE Txt(floatOfDepth(0))]

FieldsB == [c \in 1..18 |-> IF c = 4 THEN Txt(floatOfDepth(1020))
                            ELSE IF c = 5 THEN Txt(floatOfDepth(1510))
                            ELSE IF c = 18 THEN Txt(floatOfDepth(1490))
                            ELSE Txt(floatOfDepth(0))]

\* A second pass that measured station 1 again, and station 3.
FieldsC == [c \in 1..18 |-> IF c = 1 THEN Txt(floatOfDepth(1020))
                            ELSE IF c = 7 THEN Txt(floatOfDepth(1490))
                            ELSE Txt(floatOfDepth(0))]

\* A row of the csv reader: time, N, spindle, X, Y, then the depth cells.
Row(time, n, hole, fields) == <<Str(time), Txt(n), Txt(1)>> \o hole \o fields

\* Rows of a log, in short: counters 2, 3 and 65535 at hole P or Q with
\* the fields A, and the second pass of hole P (the fields B, or a short
\* row of five cells).
RowKinds ==
    ({2, 3, WrapAt} \X {"P", "Q"} \X {"A"})
    \cup {<<2, "P", "B">>, <<2, "P", "S">>}

HoleOf(h) == IF h = "P" THEN HoleP ELSE HoleQ

FieldsOf(f) == IF f = "A" THEN FieldsA ELSE IF f = "B" THEN FieldsB ELSE <<>>

\* The time of day of the k-th row of a log: one tick per row.
TimeOf(k) == <<"t", DigitChar[k + 1]>>

RowsOf(kinds) ==
    [k \in 1..Len(kinds) |->
        Row(TimeOf(k), kinds[k][1], HoleOf(kinds[k][2]), FieldsOf(kinds[k][3]))]

\* The rows of the examples: given counters, all at different holes.
HoleAt(k) == <<Txt(k * Unit), Txt(200000)>>

CounterRows(ns) == [k \in 1..Len(ns) |-> Row(TimeOf(k), ns[k], HoleAt(k), FieldsA)]

WrapExample == CounterRows(<<65533, 65534, 65535, 2, 3>>)

RestartExample == CounterRows(<<10, 20, 5, 15>>)

\* One hole drilled twice, the second pass measuring station 1 again.
RemeasuredHole == <<Row(TimeOf(1), 2, HoleP, FieldsA), Row(TimeOf(2), 2, HoleP, FieldsC)>>

\* A restart logged in the same second as the first row.
SameSecondRestart == <<Row(TimeOf(1), 10, HoleP, FieldsA), Row(TimeOf(1), 5, HoleQ, FieldsA)>>

\* Rows of a log with seven stations (26 cells), and a row of 24 cells.
SevenStationRows ==
    <<Row(TimeOf(1), 2, HoleP, FieldsA) \o <<Txt(floatOfDepth(1010)), Txt(floatOfDepth(0)), Txt(floatOfDepth(0))>>,
      Row(TimeOf(2), 3, HoleQ, FieldsA) \o <<Txt(floatOfDepth(0))>>>>

File(h, rows) == [exists |-> TRUE, header |-> h, rows |-> rows]

NoFile == [exists |-> FALSE, header |-> GoodHeader, rows |-> <<>>]

\* A file system with the two dated logs.
Disk(f1, f2) ==
    [n \in {"d/pos0101.dat", "d/pos0102.dat", "d/readme.dat"} |->
        IF n = "d/pos0101.dat" THEN f1
        ELSE IF n = "d/pos0102.dat" THEN f2
        ELSE File(GoodHeader, <<>>)]

\* The rows split over the two logs after the k-th.
SplitLogs(rows, k) ==
    Disk(File(GoodHeader, SubSeq(rows, 1, k)), File(GoodHeader, SubSeq(rows, k + 1, Len(rows))))

\* The same with no file of the undated name.
NoReadme == [SplitLogs(RestartExample, 2) EXCEPT !["d/readme.dat"] = NoFile]

BothLogs == <<"d/pos0101.dat", "d/pos0102.dat">>

\* The examples, in one file, split over two, and passed unsorted; and
\* calls that fail: a missing file, a bad header, an empty line, a name
\* without a date.
SpecialInputs ==
    UNION {{<<BothLogs, SplitLogs(r, k)>> : k \in 0..Len(r)} : r \in {WrapExample, RestartExample}}
    \cup {<<<<"d/pos0101.dat">>, SplitLogs(r, Len(r))>> : r \in {WrapExample, RestartExample}}
    \cup {<<<<"d/pos0102.dat", "d/pos0101.dat">>, SplitLogs(WrapExample, 3)>>,
          <<BothLogs, Disk(File(GoodHeader, RestartExample), NoFile)>>,
          <<BothLogs, Disk(File(<<8, "#Date", "N">>, RestartExample), NoFile)>>,
          <<BothLogs, Disk(File(GoodHeader, <<<<>>>>), NoFile)>>,
          <<<<"d/readme.dat", "d/pos0101.dat">>, SplitLogs(RestartExample, 2)>>}
    \cup {<<BothLogs, SplitLogs(r, k)>> :
             r \in {RemeasuredHole, SameSecondRestart, SevenStationRows}, k \in 1..2}
    \cup {<<<<"d/readme.dat">>, NoReadme>>, <<<<"d/pos0101.dat", "d/readme.dat">>, NoReadme>>}

InitLog ==
    /\ lpc = "start"
    /\ \/ \E n \in 0..MaxRows : \E g \in [1..n -> RowKinds] : \E k \in 0..n :
             files = BothLogs /\ disk = SplitLogs(RowsOf(g), k)
       \/ \E inp \in SpecialInputs : files = inp[1] /\ disk = inp[2]
    /\ fidx = 0
    /\ month = <<>>
    /\ day = <<>>
    /\ pos = 0
    /\ last_H = None
    /\ base = 0
    /\ result = <<>>
    /\ flags = EmptyDict
    /\ flagged = <<>>
    /\ lerr = None
    /\ CodecIdle
    /\ OutIdle
    /\ ShiftIdle
    /\ PrgIdle
    /\ WinIdle
    /\ WriterIdle

CurFile == disk[files[fidx]]

\* lines 120-129: sort the list, clear the state
LoadStart ==
    /\ lpc = "start"
    /\ files' = SortFiles(files)
    /\ fidx' = 1
    /\ lpc' = "file"
    /\ UNCHANGED <<disk, month, day, pos, last_H, base, result, flags, flagged, lerr,
                   codecVars, outVars, shiftVars, prgVars, winVars, writerVars>>

\* lines 133-134: the path is no file
RaiseNotFound ==
    /\ lpc = "file"
    /\ fidx <= Len(files)
    /\ ~CurFile.exists
    /\ lerr' = "NotFound"
    /\ lpc' = "raised"
    /\ UNCHANGED <<files, disk, fidx, month, day, pos, last_H, base, result, flags, flagged,
                   codecVars, outVars, shiftVars, prgVars, winVars, writerVars>>

\* lines 135-138: the name carries no date
RaiseNaming ==
    /\ lpc = "file"
    /\ fidx <= Len(files)
    /\ CurFile.exists
    /\ filePattern(files[fidx]) = None
    /\ lerr' = "Naming"
    /\ lpc' = "raised"
    /\ UNCHANGED <<files, disk, fidx, month, day, pos, last_H, base, result, flags, flagged,
                   codecVars, outVars, shiftVars, prgVars, winVars, writerVars>>

\* lines 143-146: the header is not that of a back-drill log
RaiseSchema ==
    /\ lpc = "file"
    /\ fidx <= Len(files)
    /\ CurFile.exists
    /\ filePattern(files[fidx]) # None
    /\ ~HeaderOk(CurFile.header)
    /\ lerr' = "Schema"
    /\ lpc' = "raised"
    /\ UNCHANGED <<files, disk, fidx, month, day, pos, last_H, base, result, flags, flagged,
                   codecVars, outVars, shiftVars, prgVars, winVars, writerVars>>

\* lines 132-146: the file is open, its header read
OpenFile ==
    /\ lpc = "file"
    /\ fidx <= Len(files)
    /\ CurFile.exists
    /\ filePattern(files[fidx]) # None
    /\ HeaderOk(CurFile.header)
    /\ month' = filePattern(files[fidx])[1]
    /\ day' = filePattern(files[fidx])[2]
    /\ pos' = 0
    /\ lpc' = "rows"
    /\ UNCHANGED <<files, disk, fidx, last_H, base, result, flags, flagged, lerr,
                   codecVars, outVars, shiftVars, prgVars, winVars, writerVars>>

\* The row the csv reader yields next.
NextRow == CurFile.rows[pos + 1]

\* r[1] of the row: the text of the hole counter
RawCounter(row) == row[2][2]

\* lines 148-187: one row
ReadRow ==
    /\ lpc = "rows"
    /\ pos < Len(CurFile.rows)
    /\ Len(NextRow) >= 2
    /\ LET current == RawCounter(NextRow)
           b == NewBase(last_H, base, current)
           flag == NewFlag(last_H, current)
           r == StoredRow(NextRow, month, day, b)
       IN  /\ base' = b
           /\ IF result # <<>> /\ SameHole(result[Len(result)], r)
              THEN /\ result' = [result EXCEPT ![Len(result)] = MergeInto(result[Len(result)], r)]
                   /\ UNCHANGED <<last_H, flags, flagged>>
              ELSE /\ result' = Append(result, r)
                   /\ last_H' = Num(current)
                   /\ flagged' = Append(flagged, flag)
                   /\ flags' = IF DOMAIN flags = {} \/ flag
                               THEN DictSet(flags, r[1], Len(result))
                               ELSE flags
    /\ pos' = pos + 1
    /\ UNCHANGED <<lpc, files, disk, fidx, month, day, lerr, codecVars, outVars, shiftVars, prgVars, winVars, writerVars>>

\* lines 153-156: a row of fewer than two cells (an empty line)
RaiseRow ==
    /\ lpc = "rows"
    /\ pos < Len(CurFile.rows)
    /\ Len(NextRow) < 2
    /\ lerr' = "Index"
    /\ lpc' = "raised"
    /\ UNCHANGED <<files, disk, fidx, month, day, pos, last_H, base, result, flags, flagged,
                   codecVars, outVars, shiftVars, prgVars, winVars, writerVars>>

\* line 148: the rows of the file are exhausted
CloseFile ==
    /\ lpc = "rows"
    /\ pos >= Len(CurFile.rows)
    /\ fidx' = fidx + 1
    /\ lpc' = "file"
    /\ UNCHANGED <<files, disk, month, day, pos, last_H, base, result, flags, flagged, lerr,
                   codecVars, outVars, shiftVars, prgVars, winVars, writerVars>>

\* line 188: return result, flags
LoadReturn ==
    /\ lpc = "file"
    /\ fidx > Len(files)
    /\ lpc' = "done"
    /\ UNCHANGED <<files, disk, fidx, month, day, pos, last_H, base, result, flags, flagged,
                   lerr, codecVars, outVars, shiftVars, prgVars, winVars, writerVars>>

NextLog ==
    \/ LoadStart
    \/ RaiseNotFound
    \/ RaiseNaming
    \/ RaiseSchema
    \/ OpenFile
    \/ ReadRow
    \/ RaiseRow
    \/ CloseFile
    \/ LoadReturn

SpecLog == InitLog /\ [][NextLog]_vars

(***************************************************************************)
(* What the claims about loadBackDrillData speak of.                       *)
(***************************************************************************)
\* The rows of files[1..j], in the order they are read.
RECURSIVE RowsOfFiles(_)
RowsOfFiles(j) == IF j = 0 THEN <<>> ELSE RowsOfFiles(j - 1) \o disk[files[j]].rows

\* The rows read so far in this call, over all files.
RowsRead == RowsOfFiles(fidx - 1) \o SubSeq(CurFile.rows, 1, pos)

\* The raw counter of the row read before the next one.
PrevRaw == RawCounter(RowsRead[Len(RowsRead)])

\* This step reads a row.
ReadsRow == lpc = "rows" /\ pos' = pos + 1

\* The stored hole counters of the result.
Counters == [k \in 1..Len(result) |-> result[k][2][2]]

\* The indices held by the boundary map.
BoundaryIndices == {flags[k] : k \in DOMAIN flags}

\* The whole call read these rows, from one file or split over two.
Loaded(rows) == lpc = "done" /\ RowsOfFiles(Len(files)) = rows

(***************************************************************************)
(* C1: whenever a row's raw counter is lower than the previous row's raw   *)
(* counter and that counter is 65535, 65536 is added to base, the row is   *)
(* not marked as a run boundary and its stored counter is raw + base; the  *)
(* previous row may be the last one of the previous file.  The raw         *)
(* counters [65533, 65534, 65535, 2, 3] are stored as [65533, 65534,       *)
(* 65535, 65538, 65539] with only index 0 in the boundary map.             *)
(***************************************************************************)
C1_Step ==
    (/\ ReadsRow
     /\ RowsRead # <<>>
     /\ PrevRaw = 65535
     /\ RawCounter(NextRow) < PrevRaw)
    => /\ base' = base + 65536
       /\ flags' = flags
       /\ Len(result') = Len(result) + 1
       /\ flagged'[Len(result')] = FALSE
       /\ result'[Len(result')][2] = Num(RawCounter(NextRow) + base')

C1_Example ==
    Loaded(WrapExample) =>
        /\ Counters = <<65533, 65534, 65535, 65538, 65539>>
        /\ BoundaryIndices = {0}

C1_WrapUnwrapped == [][C1_Step]_vars /\ []C1_Example

\* The example read from two files, the wrap falling on the file boundary.
C1_Witness ==
    /\ Loaded(WrapExample)
    /\ Len(files) = 2
    /\ Len(disk[files[1]].rows) = 3
    /\ Counters = <<65533, 65534, 65535, 65538, 65539>>
    /\ base = 65536

(***************************************************************************)
(* C2: whenever a row's raw counter is lower than the previous row's raw   *)
(* counter and that counter is not 65535, base is reset to 0, the row is   *)
(* flagged as a run boundary and its stored counter is its raw counter.    *)
(* The raw counters [10, 20, 5, 15] are stored as [10, 20, 5, 15] with     *)
(* index 2 recorded as a run boundary.                                     *)
(***************************************************************************)
C2_Step ==
    (/\ ReadsRow
     /\ RowsRead # <<>>
     /\ PrevRaw # 65535
     /\ RawCounter(NextRow) < PrevRaw)
    => /\ base' = 0
       /\ Len(result') = Len(result) + 1
       /\ flagged'[Len(result')] = TRUE
       /\ Len(result) \in {flags'[k] : k \in DOMAIN flags'}
       /\ flags'[result'[Len(result')][1]] = Len(result)
       /\ result'[Len(result')][2] = Num(RawCounter(NextRow))

C2_Example ==
    Loaded(RestartExample) =>
        /\ Counters = <<10, 20, 5, 15>>
        /\ 2 \in BoundaryIndices

C2_RestartFlagged == [][C2_Step]_vars /\ []C2_Example

\* A restart after a wrap: base falls from 65536 to 0.
C2_Witness ==
    /\ lpc = "done"
    /\ Len(result) = 3
    /\ Counters = <<65535, 65539, 2>>
    /\ flagged = <<FALSE, FALSE, TRUE>>
    /\ base = 0

(***************************************************************************)
(* C3: in the record list, whenever the later of two consecutive records   *)
(* was not flagged as a new-run boundary, its stored counter is greater    *)
(* than or equal to the earlier one's.                                     *)
(***************************************************************************)
C3_MonotonicWithinRun ==
    \A k \in 2..Len(result) :
        ~flagged[k] => result[k][2][2] >= result[k - 1][2][2]

\* A list with a wrap (no decrease) and a flagged restart (a decrease).
C3_Witness ==
    /\ lpc = "done"
    /\ Len(result) = 3
    /\ result[2][2][2] > 65535
    /\ ~flagged[2]
    /\ flagged[3]
    /\ result[3][2][2] < result[2][2][2]

(***************************************************************************)
(* C4: a row with the stored counter, X and Y of the previous row, and     *)
(* with non-absent fields in columns 5..22 disjoint from its fields, is    *)
(* not appended: the one record holds in each column 5..22 the value that  *)
(* is non-absent in either row, and last_H, base and the boundary map stay *)
(* as they were.                                                           *)
(***************************************************************************)
C4_Step ==
    ReadsRow =>
        LET r  == StoredRow(NextRow, month, day, base')
            r0 == result[Len(result)]
        IN  (/\ result # <<>>
             /\ r0[2] = r[2] /\ r0[4] = r[4] /\ r0[5] = r[5]
             /\ \A c \in 6..23 : r0[c] = None \/ r[c] = None)
            => /\ Len(result') = Len(result)
               /\ \A c \in 6..23 :
                     result'[Len(result)][c] = (IF r0[c] # None THEN r0[c] ELSE r[c])
               /\ \A c \in 1..5 : result'[Len(result)][c] = r0[c]
               /\ last_H' = last_H
               /\ base' = base
               /\ flags' = flags

C4_MergeKeepsUnion == [][C4_Step]_vars

\* Two passes of one hole, read from two files, merged into one record
\* that holds the values of both.
C4_Witness ==
    /\ lpc = "done"
    /\ Len(RowsOfFiles(Len(files))) = 2
    /\ Len(disk[files[1]].rows) = 1
    /\ Len(result) = 1
    /\ result[1][6] = Num(floatOfDepth(1000))
    /\ result[1][7] = Num(floatOfDepth(1500))
    /\ result[1][9] = Num(floatOfDepth(1020))
    /\ result[1][23] = Num(floatOfDepth(1490))
    /\ result[1][8] = None

(***************************************************************************)
(* calc_shift: the program sample, the sliding window over the records and *)
(* judgeShift.  A line of prg_file is held without its newline (the $ of   *)
(* both patterns matches before a trailing newline).  The returned pair    *)
(* (shiftX/1000, shiftY/1000) is held as <<shiftX, shiftY>>, the offsets   *)
(* in thousandths: the division of an int by 1000 is one-to-one here.      *)
(***************************************************************************)
\* toolPattern = ^T0?[2-9]$
toolPattern(line) ==
    LET d == IF Len(line) = 2 THEN line[2]
             ELSE IF Len(line) = 3 /\ line[2] = "0" THEN line[3] ELSE "x"
    IN  /\ Len(line) \in {2, 3}
        /\ line[1] = "T"
        /\ IsDigit(d)
        /\ CharVal(d) >= 2

\* float(c) of a cell: a number, None (TypeError) or a text
floatOfCell(c) ==
    IF c = None THEN Err("TypeError")
    ELSE IF c[1] = "num" THEN Ok(c[2])
    ELSE IF \E k \in 1..Len(c[2]) : c[2][k] = "." THEN floatOfText(c[2])
    ELSE IF c[2] # <<>> /\ c[2] # <<"-">> /\ IsSignedDigits(c[2])
    THEN Ok((IF c[2][1] = "-" THEN -DigitsValue(Tail(c[2])) ELSE DigitsValue(c[2])) * Unit)
    ELSE Err("ValueError")

\* getIntPos(x, y) of two floats
getIntPos(x, y) == <<RoundScale(x), RoundScale(y)>>

\* lines 231-232: curX, curY of one pair
curXY(m, n) == <<m[1] - n[1], m[2] + n[2]>>

judgeShift_FirstPairOnly(dpos, ppos) ==
    IF Len(dpos) # Len(ppos) THEN <<FALSE>>
    ELSE curXY(dpos[1], ppos[1])

\* judgeShift(data_pos, prg_pos): <<FALSE>> is False, None is None and a
\* pair is the tuple returned at line 238.  It is called with data_pos
\* non-empty only.
judgeShift(dpos, ppos) ==
    IF Len(dpos) # Len(ppos) THEN <<FALSE>>
    ELSE IF \E k \in 1..Len(dpos) : curXY(dpos[k], ppos[k]) # curXY(dpos[1], ppos[1])
    THEN None
    ELSE curXY(dpos[1], ppos[1])

\* if shiftXY: a non-empty tuple is truthy, False and None are not
ShiftFound(j) == Len(j) = 2

\* lines 255-258 for a line that posPattern matches
prgLinePos(line) ==
    LET g == posPattern(line)
        x == parseNumber(g[1], IntDigits, TRUE)
        y == parseNumber(g[2], IntDigits, TRUE)
    IN  IF ~IsOk(x) THEN x
        ELSE IF ~IsOk(y) THEN y
        ELSE Ok(getIntPos(x[2], y[2]))

\* line 254: elif curTool and posPattern.match(line)
IsSampleLine(tool, line) ==
    /\ ~toolPattern(line)
    /\ tool # None
    /\ posPattern(line) # None

\* line 266 for one record: the pair, or the exception that is swallowed
recordPos(r) ==
    LET x == floatOfCell(r[4])
        y == floatOfCell(r[5])
    IN  IF ~IsOk(x) THEN x
        ELSE IF ~IsOk(y) THEN y
        ELSE Ok(getIntPos(x[2], y[2]))

\* lines 267 and 270-271: append, then drop the oldest beyond sample
SlideWindow(dpos, p, n) ==
    LET a == Append(dpos, p)
    IN  IF Len(a) > n THEN Tail(a) ELSE a

(***************************************************************************)
(* calc_shift as a state machine.                                          *)
(***************************************************************************)
MaxSample == 3

MaxShiftRecs == 3

\* Lines of a program file: tool changes, an end of program, positions.
PrgLine ==
    [ T01    |-> <<"T", "0", "1">>,
      T02    |-> <<"T", "0", "2">>,
      T3     |-> <<"T", "3">>,
      T10    |-> <<"T", "1", "0">>,
      M30    |-> <<"M", "3", "0">>,
      Origin |-> <<"X", "0", "Y", "0">>,
      P1     |-> <<"X", "0", "0", "1", "Y", "0", "0", "1">>,
      P2     |-> <<"X", "0", "0", "2", "Y", "0", "0", "1">>,
      P3     |-> <<"X", "0", "0", "2", "Y", "0", "0", "2">>,
      P4     |-> <<"X", "0", "1", "1", "Y", "-", "0", "0", "4">>,
      Bad    |-> <<"X", "-", "Y", "1">> ]

\* The program files: back-drill holes after a through-hole tool, a single
\* hole, three holes, no back-drill tool, a malformed coordinate, an empty
\* file.
TwoHoles ==
    <<PrgLine.T01, PrgLine.Origin, PrgLine.T02, PrgLine.P1, PrgLine.T01, PrgLine.P2>>

ShiftPrograms ==
    { TwoHoles,
      <<PrgLine.T3, PrgLine.P4>>,
      <<PrgLine.T02, PrgLine.P1, PrgLine.P2, PrgLine.P3, PrgLine.M30>>,
      <<PrgLine.T10, PrgLine.P1>>,
      <<PrgLine.T02, PrgLine.Bad>>,
      <<>> }

\* A record of the loaded data; calc_shift reads r[3] and r[4] only.
ShiftRec(x, y) ==
    [c \in 1..Columns |-> IF c = 4 THEN x ELSE IF c = 5 THEN y ELSE None]

\* The record of a hole drilled at machine coordinates (x, y), in mm.
HoleAtXY(x, y) == ShiftRec(Num(x * Unit), Num(y * Unit))

\* Three holes and a record that has no X.
ShiftRecs == {HoleAtXY(11, 4), HoleAtXY(12, 4), HoleAtXY(12, 3), ShiftRec(None, Num(4 * Unit))}

InitShift ==
    /\ spc = "prg"
    /\ prg \in ShiftPrograms
    /\ pln = 0
    /\ curTool = None
    /\ prg_pos = <<>>
    /\ sample \in 1..MaxSample
    /\ \E n \in 0..MaxShiftRecs : records \in [1..n -> ShiftRecs]
    /\ ridx = 0
    /\ data_pos = <<>>
    /\ shiftXY = None
    /\ CodecIdle
    /\ OutIdle
    /\ LogIdle
    /\ PrgIdle
    /\ WinIdle
    /\ WriterIdle

\* The line the for loop of line 251 reads next.
CurLine == prg[pln + 1]

\* lines 251-261: one line of the program; the loop breaks when the sample
\* is complete.
ShiftReadLine ==
    /\ spc = "prg"
    /\ pln < Len(prg)
    /\ ~(IsSampleLine(curTool, CurLine) /\ ~IsOk(prgLinePos(CurLine)))
    /\ curTool' = IF toolPattern(CurLine) THEN CurLine ELSE curTool
    /\ prg_pos' = IF IsSampleLine(curTool, CurLine)
                  THEN Append(prg_pos, prgLinePos(CurLine)[2]) ELSE prg_pos
    /\ pln' = pln + 1
    /\ spc' = IF Len(prg_pos') = sample THEN "data" ELSE "prg"
    /\ UNCHANGED <<prg, sample, records, ridx, data_pos, shiftXY,
                   codecVars, outVars, logVars, prgVars, winVars, writerVars>>

\* lines 256-257: parseNumber raises on a coordinate that has no digits.
ShiftRaise ==
    /\ spc = "prg"
    /\ pln < Len(prg)
    /\ IsSampleLine(curTool, CurLine)
    /\ ~IsOk(prgLinePos(CurLine))
    /\ spc' = "raised"
    /\ UNCHANGED <<prg, pln, curTool, prg_pos, sample, records, ridx, data_pos, shiftXY,
                   codecVars, outVars, logVars, prgVars, winVars, writerVars>>

\* line 251: the file is exhausted before the sample is complete.
ShiftEndOfFile ==
    /\ spc = "prg"
    /\ pln = Len(prg)
    /\ spc' = "data"
    /\ UNCHANGED <<prg, pln, curTool, prg_pos, sample, records, ridx, data_pos, shiftXY,
                   codecVars, outVars, logVars, prgVars, winVars, writerVars>>

\* The record the for loop of line 264 visits next.
CurRec == records[ridx + 1]

\* lines 265-269: a record whose X or Y is not a number is passed over.
ShiftSkipRecord ==
    /\ spc = "data"
    /\ ridx < Len(records)
    /\ ~IsOk(recordPos(CurRec))
    /\ ridx' = ridx + 1
    /\ UNCHANGED <<spc, prg, pln, curTool, prg_pos, sample, records, data_pos, shiftXY,
                   codecVars, outVars, logVars, prgVars, winVars, writerVars>>

\* lines 265-274: a record enters the window and the window is judged.
ShiftRecord ==
    /\ spc = "data"
    /\ ridx < Len(records)
    /\ IsOk(recordPos(CurRec))
    /\ data_pos' = SlideWindow(data_pos, recordPos(CurRec)[2], sample)
    /\ ridx' = ridx + 1
    /\ LET j == judgeShift(data_pos', prg_pos)
       IN  IF ShiftFound(j)
           THEN spc' = "done" /\ shiftXY' = j
           ELSE UNCHANGED <<spc, shiftXY>>
    /\ UNCHANGED <<prg, pln, curTool, prg_pos, sample, records,
                   codecVars, outVars, logVars, prgVars, winVars, writerVars>>

\* The for loop of line 264 ends: the function returns None.
ShiftReturnNone ==
    /\ spc = "data"
    /\ ridx = Len(records)
    /\ spc' = "done"
    /\ shiftXY' = None
    /\ UNCHANGED <<prg, pln, curTool, prg_pos, sample, records, ridx, data_pos,
                   codecVars, outVars, logVars, prgVars, winVars, writerVars>>

NextShift ==
    \/ ShiftReadLine
    \/ ShiftRaise
    \/ ShiftEndOfFile
    \/ ShiftSkipRecord
    \/ ShiftRecord
    \/ ShiftReturnNone

SpecShift == InitShift /\ [][NextShift]_vars

(***************************************************************************)
(* Properties of calc_shift.                                               *)
(***************************************************************************)
\* The integer positions of the records among the first n that have a
\* numeric X and Y, in stream order.
ParsedPos(n) ==
    LET ok == SelectSeq(SubSeq(records, 1, n), LAMBDA r : IsOk(recordPos(r)))
    IN  [k \in 1..Len(ok) |-> recordPos(ok[k])[2]]

\* calc_shift has returned an offset.
ReturnedOffset == spc = "done" /\ shiftXY # None

\* The window that was judged last is the tail of the parseable records
\* visited so far.
WindowIsTail ==
    LET p == ParsedPos(ridx)
    IN  /\ Len(data_pos) <= Len(p)
        /\ data_pos = SubSeq(p, Len(p) - Len(data_pos) + 1, Len(p))

\* C7 as stated: whenever an offset (dx, dy) is returned, every sampled
\* pair satisfies machineX - dx = programX and machineY + dy = programY
\* (coordinates and offset in thousandths).
C7_AddsYOffset ==
    ReturnedOffset =>
        /\ Len(data_pos) = Len(prg_pos)
        /\ \A k \in 1..Len(prg_pos) :
              /\ data_pos[k][1] - shiftXY[1] = prg_pos[k][1]
              /\ data_pos[k][2] + shiftXY[2] = prg_pos[k][2]

\* C7: whenever an offset (dx, dy) is returned, the window is the last
\* records with a numeric X/Y, as many as the program sample, and every
\* sampled pair satisfies machineX - dx = programX and dy - machineY =
\* programY on the integer-scaled coordinates (dy is the sum of the machine
\* Y and the program Y, the Y axis being mirrored).
C7_MirrorsYOffset ==
    ReturnedOffset =>
        /\ Len(data_pos) = Len(prg_pos)
        /\ WindowIsTail
        /\ \A k \in 1..Len(prg_pos) :
              /\ data_pos[k][1] - shiftXY[1] = prg_pos[k][1]
              /\ shiftXY[2] - data_pos[k][2] = prg_pos[k][2]

\* A two-hole sample matched by the second and third record, after a first
\* window that did not match.
C7_Witness ==
    /\ ReturnedOffset
    /\ prg = TwoHoles
    /\ sample = 2
    /\ prg_pos = <<<<1000, 1000>>, <<2000, 1000>>>>
    /\ records = <<HoleAtXY(12, 3), HoleAtXY(11, 4), HoleAtXY(12, 4)>>
    /\ data_pos = <<<<11000, 4000>>, <<12000, 4000>>>>
    /\ shiftXY = <<10000, 5000>>

\* A run of parseable records matches the program sample: same length, the
\* same X difference and the same Y sum at every index.
RunMatches(w) ==
    /\ Len(w) = Len(prg_pos)
    /\ \A k \in 1..Len(w) :
          /\ w[k][1] - prg_pos[k][1] = w[1][1] - prg_pos[1][1]
          /\ w[k][2] + prg_pos[k][2] = w[1][2] + prg_pos[1][2]

\* Where the matching runs start in the stream of parseable records.
RunStarts ==
    LET p == ParsedPos(Len(records))
        n == Len(prg_pos)
    IN  {s \in 1..(Len(p) - n + 1) : RunMatches(SubSeq(p, s, s + n - 1))}

\* The offset of the run that starts at s.
RunOffset(s) ==
    LET m == ParsedPos(Len(records))[s]
    IN  <<m[1] - prg_pos[1][1], m[2] + prg_pos[1][2]>>

EarliestRun == CHOOSE s \in RunStarts : \A t \in RunStarts : s <= t

\* C8: for a non-empty program sample, an offset is returned if and only if
\* the parseable records contain a run, as long as the program sample, with
\* one X difference and one Y sum; the offset returned is that of the
\* earliest such run; this also when the program held fewer than sample
\* positions.
C8_ReturnsEarliestRun ==
    (spc = "done" /\ prg_pos # <<>>) =>
        IF RunStarts = {} THEN shiftXY = None
        ELSE shiftXY = RunOffset(EarliestRun)

\* The same for a program sample that is complete (sample positions).
FullSampleReturnsEarliestRun ==
    (spc = "done" /\ Len(prg_pos) = sample) =>
        IF RunStarts = {} THEN shiftXY = None
        ELSE shiftXY = RunOffset(EarliestRun)

\* A program with two positions where sample is three, and a matching run
\* that starts at the second record: no offset is returned.
ShortSampleMissesRun ==
    /\ spc = "done"
    /\ prg = TwoHoles
    /\ sample = 3
    /\ records = <<HoleAtXY(12, 3), HoleAtXY(11, 4), HoleAtXY(12, 4)>>
    /\ RunStarts = {2}
    /\ shiftXY = None

(***************************************************************************)
(* loadBackDrillData as a function of its inputs: the same steps as the    *)
(* actions of the loader above, folded over the rows and the files.        *)
(***************************************************************************)
\* lines 126-129: the state before the first file
LoadState0 == [last_H |-> None, base |-> 0, result |-> <<>>, flags |-> EmptyDict]

\* lines 148-187: one row
loadRow(st, row, mm, dd) ==
    IF Len(row) < 2 THEN Err("Index")
    ELSE LET current == RawCounter(row)
             b == NewBase(st.last_H, st.base, current)
             flag == NewFlag(st.last_H, current)
             r == StoredRow(row, mm, dd, b)
             n == Len(st.result)
         IN  IF n > 0 /\ SameHole(st.result[n], r)
             THEN Ok([st EXCEPT !.base = b,
                                !.result[n] = MergeInto(st.result[n], r)])
             ELSE Ok([last_H |-> Num(current),
                      base |-> b,
                      result |-> Append(st.result, r),
                      flags |-> IF DOMAIN st.flags = {} \/ flag
                                THEN DictSet(st.flags, r[1], n)
                                ELSE st.flags])

RECURSIVE loadRowsFrom(_, _, _, _, _)
\* line 148: the rows of one file from the k-th on
loadRowsFrom(st, rows, k, mm, dd) ==
    IF k > Len(rows) THEN Ok(st)
    ELSE LET s == loadRow(st, rows[k], mm, dd)
         IN  IF IsOk(s) THEN loadRowsFrom(s[2], rows, k + 1, mm, dd) ELSE s

RECURSIVE loadFilesFrom(_, _, _, _)
\* lines 130-187: the files from the j-th on
loadFilesFrom(st, fs, dk, j) ==
    IF j > Len(fs) THEN Ok(st)
    ELSE LET f == dk[fs[j]]
             md == filePattern(fs[j])
         IN  IF ~f.exists THEN Err("NotFound")
             ELSE IF md = None THEN Err("Naming")
             ELSE IF ~HeaderOk(f.header) THEN Err("Schema")
             ELSE LET s == loadRowsFrom(st, f.rows, 1, md[1], md[2])
                  IN  IF IsOk(s) THEN loadFilesFrom(s[2], fs, dk, j + 1) ELSE s

\* loadBackDrillData(files): Ok(<<result, flags>>), or the error raised
loadBackDrillData(fs, dk) ==
    LET s == loadFilesFrom(LoadState0, SortFiles(fs), dk, 1)
    IN  IF IsOk(s) THEN Ok(<<s[2].result, s[2].flags>>) ELSE s

\* The call in progress ends as the function says.
LoaderAgrees ==
    /\ lpc = "done" => loadBackDrillData(files, disk) = Ok(<<result, flags>>)
    /\ lpc = "raised" => loadBackDrillData(files, disk) = Err(lerr)

\* C11: a call of the loader leaves its inputs as they were (the caller's
\* list of paths keeps its contents and order, the files are not written),
\* and a second call with the same inputs returns the same record list and
\* boundary map.
C11_SideEffectFree ==
    /\ [][files' = files /\ disk' = disk]_vars
    /\ [](lpc = "done" => loadBackDrillData(files, disk) = Ok(<<result, flags>>))

\* This step merges the row read into the last record.
MergesRow ==
    /\ ReadsRow
    /\ result # <<>>
    /\ SameHole(result[Len(result)], StoredRow(NextRow, month, day, base'))

\* C12: when a row is merged into the previous record, a field of columns
\* 5..22 that is present in the previous record keeps its value, even if
\* the row carries another value there; only the absent fields of the
\* previous record are filled from the row.
C12_Step ==
    MergesRow =>
        LET r  == StoredRow(NextRow, month, day, base')
            r0 == result[Len(result)]
        IN  /\ Len(result') = Len(result)
            /\ \A c \in 6..23 :
                  result'[Len(result)][c] = (IF r0[c] # None THEN r0[c] ELSE r[c])

C12_FirstValueWins == [][C12_Step]_vars

\* The indices of the records that were appended as the start of a run.
RunStartIndices == {k - 1 : k \in {j \in 1..Len(result) : flagged[j]}}

\* C13: the indices held by the boundary map returned are exactly 0 (when
\* there is a record) and the index of every record flagged as the start
\* of a new run.
C13_EveryRunStartMapped ==
    lpc = "done" =>
        BoundaryIndices = (IF result = <<>> THEN {} ELSE {0}) \cup RunStartIndices

\* C14: every record of the list has exactly 23 columns, whatever the
\* number of cells of the row it was read from.
C14_ExactlyColumns == \A k \in 1..Len(result) : Len(result[k]) = Columns

\* C18: a path whose name carries no month/day fails with the naming
\* error whether or not the file exists; the not-found error is raised
\* only for a path whose name carries the date.
C18_NamingBeforeExistence ==
    lpc = "raised" =>
        /\ filePattern(files[fidx]) = None => lerr = "Naming"
        /\ lerr = "NotFound" => filePattern(files[fidx]) # None

(***************************************************************************)
(* Which tool governs a line of the program.                               *)
(***************************************************************************)
\* toolPattern of loadPrgData and output_prg = ^T\d{1,2}$
prgToolPattern(line) ==
    /\ Len(line) \in {2, 3}
    /\ line[1] = "T"
    /\ AllDigits(Tail(line))

\* The number a tool-select line names.
ToolNumber(line) == DigitsValue(Tail(line))

\* The tool-select lines among the first n lines of the program.
ToolSelects(n) == {k \in 1..n : prgToolPattern(prg[k])}

\* The most recent tool-select line among the first n lines.
GoverningTool(n) == prg[CHOOSE k \in ToolSelects(n) : \A j \in ToolSelects(n) : j <= k]

\* C16: every sampled position is governed by a tool-select line that
\* names T02 or a higher tool; a position governed by T01 is never sampled.
C16_Step ==
    (spc = "prg" /\ prg_pos' # prg_pos) =>
        /\ ToolSelects(pln) # {}
        /\ ToolNumber(GoverningTool(pln)) >= 2

C16_SamplesBackDrillToolsOnly == [][C16_Step]_vars

(***************************************************************************)
(* loadPrgData.  A line is held without its newline; the dictionaries are  *)
(* functions: tools from packed positions, m18 and tool_size from tool     *)
(* names.                                                                  *)
(***************************************************************************)
\* \d*\.?\d* : digits with at most one point
IsDigitsPoint(s) ==
    /\ \A k \in 1..Len(s) : IsDigit(s[k]) \/ s[k] = "."
    /\ Cardinality({k \in 1..Len(s) : s[k] = "."}) <= 1

\* m18Pattern = ^M18Z-?\d*\.?\d*$
m18Pattern(line) ==
    /\ Len(line) >= 4
    /\ SubSeq(line, 1, 4) = <<"M", "1", "8", "Z">>
    /\ LET rest == SubSeq(line, 5, Len(line))
       IN  IsDigitsPoint(IF rest # <<>> /\ rest[1] = "-" THEN Tail(rest) ELSE rest)

\* toolSizePattern = ^(T\d{1,2})C\d*\.?\d+$ : the group, or None
toolSizePattern(line) ==
    LET ds == {n \in 1..2 :
                 /\ Len(line) >= n + 3
                 /\ line[1] = "T"
                 /\ AllDigits(SubSeq(line, 2, n + 1))
                 /\ line[n + 2] = "C"
                 /\ IsDigitsPoint(SubSeq(line, n + 3, Len(line)))
                 /\ IsDigit(line[Len(line)])}
    IN  IF ds = {} THEN None
        ELSE SubSeq(line, 1, 1 + CHOOSE n \in ds : TRUE)

\* lines 88-90, 95: the dictionaries and curTool before the first line
PrgState0 == [curTool |-> None, tools |-> EmptyDict, m18 |-> EmptyDict, tool_size |-> EmptyDict]

prgStep_SizeLineSelects(st, raw) ==
    LET line == StripSpaces(raw)
    IN  IF line = <<>> THEN Ok(st)
        ELSE IF posPattern(line) # None
        THEN LET p == packPos(Str(posPattern(line)[1]), Str(posPattern(line)[2]))
             IN  IF ~IsOk(p) THEN p
                 ELSE IF st.curTool # None
                 THEN Ok([st EXCEPT !.tools = DictSet(st.tools, p[2], st.curTool)])
                 ELSE Ok(st)
        ELSE IF toolSizePattern(line) # None
        THEN Ok([st EXCEPT !.tool_size = DictSet(st.tool_size, toolSizePattern(line), line),
                           !.curTool = toolSizePattern(line)])
        ELSE IF prgToolPattern(line) THEN Ok([st EXCEPT !.curTool = line])
        ELSE IF m18Pattern(line) /\ st.curTool # None
        THEN Ok([st EXCEPT !.m18 = DictSet(st.m18, st.curTool, line)])
        ELSE Ok(st)

\* lines 98-114: one line of the program
prgStep(st, raw) ==
    LET line == StripSpaces(raw)
    IN  IF line = <<>> THEN Ok(st)
        ELSE IF posPattern(line) # None
        THEN LET p == packPos(Str(posPattern(line)[1]), Str(posPattern(line)[2]))
             IN  IF ~IsOk(p) THEN p
                 ELSE IF st.curTool # None
                 THEN Ok([st EXCEPT !.tools = DictSet(st.tools, p[2], st.curTool)])
                 ELSE Ok(st)
        ELSE IF toolSizePattern(line) # None
        THEN Ok([st EXCEPT !.tool_size = DictSet(st.tool_size, toolSizePattern(line), line)])
        ELSE IF prgToolPattern(line) THEN Ok([st EXCEPT !.curTool = line])
        ELSE IF m18Pattern(line) /\ st.curTool # None
        THEN Ok([st EXCEPT !.m18 = DictSet(st.m18, st.curTool, line)])
        ELSE Ok(st)

RECURSIVE loadPrgFrom(_, _, _)
\* line 97: the lines from the k-th on
loadPrgFrom(st, lines, k) ==
    IF k > Len(lines) THEN Ok(st)
    ELSE LET s == prgStep(st, lines[k])
         IN  IF IsOk(s) THEN loadPrgFrom(s[2], lines, k + 1) ELSE s

\* loadPrgData(file_path) of a file with the given lines: Ok of the state
\* that holds (tool_size, tools, m18), or the error raised
loadPrgData(lines) == loadPrgFrom(PrgState0, lines, 1)

(***************************************************************************)
(* loadPrgData as a state machine.                                         *)
(***************************************************************************)
MaxPrgLines == 4

\* Lines of a program: tool selects, a tool size, two positions (one of
\* them written a second way, between spaces), two depths, a malformed
\* position.
PrgAlphabet ==
    { PrgLine.T01, PrgLine.T02, PrgLine.P1, PrgLine.P2, PrgLine.Bad,
      <<"T", "0", "1", "C", "0", ".", "5">>,
      <<"M", "1", "8", "Z", "-", "1", ".", "5">>,
      <<"M", "1", "8", "Z", "-", "2">>,
      <<" ", "X", "0", "0", "1", "0", "Y", "0", "0", "1", " ">> }

InitPrg ==
    /\ ppc = "scan"
    /\ \E n \in 0..MaxPrgLines : plines \in [1..n -> PrgAlphabet]
    /\ pidx = 0
    /\ prgTool = None
    /\ tools = EmptyDict
    /\ m18 = EmptyDict
    /\ tool_size = EmptyDict
    /\ CodecIdle
    /\ OutIdle
    /\ LogIdle
    /\ ShiftIdle
    /\ WinIdle
    /\ WriterIdle

\* The dictionaries and curTool of the call in progress.
PrgState == [curTool |-> prgTool, tools |-> tools, m18 |-> m18, tool_size |-> tool_size]

\* lines 97-114: one line
PrgScanLine ==
    /\ ppc = "scan"
    /\ pidx < Len(plines)
    /\ LET s == prgStep(PrgState, plines[pidx + 1])
       IN  /\ IsOk(s)
           /\ prgTool' = s[2].curTool
           /\ tools' = s[2].tools
           /\ m18' = s[2].m18
           /\ tool_size' = s[2].tool_size
    /\ pidx' = pidx + 1
    /\ UNCHANGED <<ppc, plines, codecVars, outVars, logVars, shiftVars, winVars, writerVars>>

\* line 103: packPos raises on a coordinate without digits
PrgRaise ==
    /\ ppc = "scan"
    /\ pidx < Len(plines)
    /\ ~IsOk(prgStep(PrgState, plines[pidx + 1]))
    /\ ppc' = "raised"
    /\ UNCHANGED <<plines, pidx, prgTool, tools, m18, tool_size,
                   codecVars, outVars, logVars, shiftVars, winVars, writerVars>>

\* line 115: return (tool_size, tools, m18)
PrgReturn ==
    /\ ppc = "scan"
    /\ pidx = Len(plines)
    /\ ppc' = "done"
    /\ UNCHANGED <<plines, pidx, prgTool, tools, m18, tool_size,
                   codecVars, outVars, logVars, shiftVars, winVars, writerVars>>

NextPrg == PrgScanLine \/ PrgRaise \/ PrgReturn

SpecPrg == InitPrg /\ [][NextPrg]_vars

(***************************************************************************)
(* C15: the lines of the program as the parser classifies them.            *)
(***************************************************************************)
\* The k-th line, stripped.
ScanLineText(k) == StripSpaces(plines[k])

IsPositionLine(k) == ScanLineText(k) # <<>> /\ posPattern(ScanLineText(k)) # None

IsToolSelectLine(k) == prgToolPattern(ScanLineText(k))

IsDepthLine(k) == m18Pattern(ScanLineText(k))

\* The packed position of a position line.
PackedAt(k) ==
    packPos(Str(posPattern(ScanLineText(k))[1]), Str(posPattern(ScanLineText(k))[2]))[2]

\* The tool named by the most recent tool-select line before line k, or
\* None when there is none.
ToolBefore(k) ==
    LET sel == {j \in 1..(k - 1) : IsToolSelectLine(j)}
    IN  IF sel = {} THEN None
        ELSE ScanLineText(CHOOSE j \in sel : \A h \in sel : h <= j)

\* The last of a non-empty set of line numbers.
LastOf(ks) == CHOOSE k \in ks : \A h \in ks : h <= k

\* C15: after scanning any lines, tools maps a packed position p to the
\* tool named by the most recent tool-select line before the last position
\* line of p; position lines before any tool-select line make no entry;
\* curTool is the most recent tool-select line (a tool-size line never
\* changes it); m18[t] is the last depth line seen while t was current.
C15_ParserStateMachine ==
    LET posLines   == {k \in 1..pidx : IsPositionLine(k) /\ ToolBefore(k) # None}
        depthLines == {k \in 1..pidx : IsDepthLine(k) /\ ToolBefore(k) # None}
    IN  /\ prgTool = ToolBefore(pidx + 1)
        /\ DOMAIN tools = {PackedAt(k) : k \in posLines}
        /\ \A p \in DOMAIN tools :
              tools[p] = ToolBefore(LastOf({k \in 1..pidx : IsPositionLine(k) /\ PackedAt(k) = p}))
        /\ DOMAIN m18 = {ToolBefore(k) : k \in depthLines}
        /\ \A t \in DOMAIN m18 :
              m18[t] = ScanLineText(LastOf({k \in depthLines : ToolBefore(k) = t}))

\* A position drilled by T01 and again by T02, a tool-size line of T01
\* after the T02 line, and a depth line: the position and the depth belong
\* to T02.
C15_Witness ==
    /\ ppc = "done"
    /\ plines = <<PrgLine.T02, <<"T", "0", "1", "C", "0", ".", "5">>,
                  <<"M", "1", "8", "Z", "-", "1", ".", "5">>, PrgLine.P1>>
    /\ prgTool = PrgLine.T02
    /\ tools[<<1000, 1000>>] = PrgLine.T02
    /\ m18[PrgLine.T02] = <<"M", "1", "8", "Z", "-", "1", ".", "5">>
    /\ DOMAIN tool_size = {PrgLine.T01}

(***************************************************************************)
(* output_prg: the rework program.                                         *)
(***************************************************************************)
\* The lines output_prg writes of its own.
WriterLine ==
    [ M19 |-> <<"M", "1", "9">>,
      T00 |-> <<"T", "0", "0">>,
      M30 |-> <<"M", "3", "0">> ]

\* lines 389-394: a selected station counts more than threshold
Selected(v, msk, th) == \E k \in 1..6 : msk[k] /\ v[k] > th

\* lines 380-385: the lines of the program before the first tool-select line
Preamble(lines) ==
    LET sel == {k \in 1..Len(lines) : prgToolPattern(lines[k])}
    IN  IF sel = {} THEN lines
        ELSE SubSeq(lines, 1, (CHOOSE k \in sel : \A j \in sel : k <= j) - 1)

\* line 396: packPos(hole[3], hole[4]); None is no number
holeKey(hole) ==
    IF hole[4] = None \/ hole[5] = None THEN Err("TypeError")
    ELSE packPos(hole[4], hole[5])

\* line 405: prgPos(hole[3], hole[4])
holeLine(hole) == prgPos(hole[4][2], hole[5][2])

emitLines_NoToolStop(st, tp, td, key, line) ==
    IF ~IsOk(key) THEN [st EXCEPT !.err = <<key[2]>>]
    ELSE IF key[2] \notin DOMAIN tp THEN st
    ELSE LET tool == tp[key[2]]
             new  == tool # st.curTool
             o1   == IF new THEN Append(st.out, tool) ELSE st.out
         IN  IF new /\ tool \notin DOMAIN td
             THEN [curTool |-> tool, out |-> o1, err |-> <<"KeyError">>]
             ELSE LET o2 == IF new THEN Append(o1, td[tool]) ELSE o1
                  IN  IF IsOk(line)
                      THEN [curTool |-> tool, out |-> Append(o2, line[2]), err |-> None]
                      ELSE [curTool |-> tool, out |-> o2, err |-> <<line[2]>>]

\* lines 397-406: the lines written for a hole of the given key and
\* position line; st holds curTool, the lines written so far and the
\* exception raised (a tuple of its name), if any
emitLines(st, tp, td, key, line) ==
    IF ~IsOk(key) THEN [st EXCEPT !.err = <<key[2]>>]
    ELSE IF key[2] \notin DOMAIN tp THEN st
    ELSE LET tool == tp[key[2]]
             new  == tool # st.curTool
             o0   == IF new /\ st.curTool # None
                     THEN Append(st.out, WriterLine.M19) ELSE st.out
             o1   == IF new THEN Append(o0, tool) ELSE o0
         IN  IF new /\ tool \notin DOMAIN td
             THEN [curTool |-> tool, out |-> o1, err |-> <<"KeyError">>]
             ELSE LET o2 == IF new THEN Append(o1, td[tool]) ELSE o1
                  IN  IF IsOk(line)
                      THEN [curTool |-> tool, out |-> Append(o2, line[2]), err |-> None]
                      ELSE [curTool |-> tool, out |-> o2, err |-> <<line[2]>>]

\* lines 395-406: the lines written for one selected hole
emitHole(st, hole, tp, td) == emitLines(st, tp, td, holeKey(hole), holeLine(hole))

\* lines 407-410: the end of the program
Footer(cur) ==
    (IF cur # None THEN <<WriterLine.M19>> ELSE <<>>) \o <<WriterLine.T00, WriterLine.M30>>

MaxHoles == 3

\* The program files: two tools with their depths after a preamble of two
\* lines, and the same without the depth of T02.
PrgFiles ==
    [ n \in {"two.B00", "nodepth.B00"} |->
        IF n = "two.B00"
        THEN << <<"M", "4", "8">>, <<"T", "0", "1", "C", "0", ".", "5">>,
                PrgLine.T01, <<"M", "1", "8", "Z", "-", "1", ".", "5">>, PrgLine.P1,
                PrgLine.T02, <<"M", "1", "8", "Z", "-", "2">>, PrgLine.P2 >>
        ELSE << <<"T", "0", "1", "C", "0", ".", "5">>,
                PrgLine.T01, <<"M", "1", "8", "Z", "-", "1", ".", "5">>, PrgLine.P1,
                PrgLine.T02, PrgLine.P2 >> ]

\* Records at the two program positions and at a position of no tool.
WriterHoles == {HoleAtXY(1, 1), HoleAtXY(2, 1), HoleAtXY(9, 9)}

\* Weight rows: no outlier, station 1 three times, station 2 three times.
WeightRows == {[c \in 1..6 |-> 0],
               [c \in 1..6 |-> IF c = 1 THEN 3 ELSE 0],
               [c \in 1..6 |-> IF c = 2 THEN 3 ELSE 0]}

\* The check boxes: station 1 only, or all six.
Masks == {[c \in 1..6 |-> c = 1], [c \in 1..6 |-> TRUE]}

\* The window when the output button is pressed: a loaded program, records
\* and their weights, or nothing analysed yet.
InitWriter ==
    /\ \E f \in DOMAIN PrgFiles : \E r \in {loadPrgData(PrgFiles[f])[2]} :
          /\ toolPos = r.tools
          /\ toolSize = r.tool_size
          /\ toolDepth = r.m18
          /\ prgFilePath = f
    /\ \E n \in 0..MaxHoles : \E hs \in [1..n -> WriterHoles \X WeightRows] :
          /\ wdata = [k \in 1..n |-> hs[k][1]]
          /\ wresult = [k \in 1..n |-> hs[k][2]]
    /\ posShifted = (wdata # <<>>)
    /\ orig = <<>>
    /\ applied = <<>>
    /\ written = None
    /\ plotted = Len(wdata)
    /\ raised = None
    /\ clicks = 0
    /\ wpc = "start"
    /\ widx = 0
    /\ wcur = None
    /\ wout = <<>>
    /\ whdr = 0
    /\ threshold = 2
    /\ mask \in Masks
    /\ werr = None
    /\ CodecIdle
    /\ OutIdle
    /\ LogIdle
    /\ ShiftIdle
    /\ PrgIdle

\* lines 371-374: nothing was analysed
WriteNothing ==
    /\ wpc = "start"
    /\ wresult = <<>>
    /\ wpc' = "refused"
    /\ UNCHANGED <<widx, wcur, wout, whdr, threshold, mask, werr,
                   codecVars, outVars, logVars, shiftVars, prgVars, winVars>>

\* lines 375-386: the file is opened and the preamble copied; the dialog
\* may have been cancelled (open('') fails)
WriteStart ==
    /\ wpc = "start"
    /\ wresult # <<>>
    /\ \E chosen \in BOOLEAN :
          IF chosen /\ prgFilePath \in DOMAIN PrgFiles
          THEN /\ wout' = Preamble(PrgFiles[prgFilePath])
               /\ whdr' = Len(wout')
               /\ wpc' = "holes"
               /\ werr' = None
          ELSE /\ wpc' = "raised"
               /\ werr' = <<"FileNotFoundError">>
               /\ UNCHANGED <<wout, whdr>>
    /\ UNCHANGED <<widx, wcur, threshold, mask,
                   codecVars, outVars, logVars, shiftVars, prgVars, winVars>>

\* lines 388-406: one pass of the for loop
WriteHole ==
    /\ wpc = "holes"
    /\ widx < Len(wresult)
    /\ IF Selected(wresult[widx + 1], mask, threshold)
       THEN \E st \in {emitHole([curTool |-> wcur, out |-> wout, err |-> None],
                                wdata[widx + 1], toolPos, toolDepth)} :
               /\ wcur' = st.curTool
               /\ wout' = st.out
               /\ werr' = st.err
               /\ IF st.err = None
                  THEN widx' = widx + 1 /\ wpc' = wpc
                  ELSE widx' = widx /\ wpc' = "raised"
       ELSE /\ widx' = widx + 1
            /\ UNCHANGED <<wpc, wcur, wout, werr>>
    /\ UNCHANGED <<whdr, threshold, mask,
                   codecVars, outVars, logVars, shiftVars, prgVars, winVars>>

\* lines 407-410: the end of the program
WriteFooter ==
    /\ wpc = "holes"
    /\ widx = Len(wresult)
    /\ wout' = wout \o Footer(wcur)
    /\ wpc' = "done"
    /\ UNCHANGED <<widx, wcur, whdr, threshold, mask, werr,
                   codecVars, outVars, logVars, shiftVars, prgVars, winVars>>

NextWriter == WriteNothing \/ WriteStart \/ WriteHole \/ WriteFooter

SpecWriter == InitWriter /\ [][NextWriter]_vars
(***************************************************************************)
(* C17: the order of the lines of the rework program after the preamble.   *)
(***************************************************************************)
\* The lines written after the copied preamble.
Body == SubSeq(wout, whdr + 1, Len(wout))

\* The tool-select lines of the body; the T00 of a finished program is the
\* disable-tool command of line 409, not a tool selection.
BodySelects ==
    {k \in 1..Len(Body) :
        /\ prgToolPattern(Body[k])
        /\ ~(wpc = "done" /\ k = Len(Body) - 1)}

BodyPositions == {k \in 1..Len(Body) : posPattern(Body[k]) # None}

\* The last tool-select line before line k of the body; 0 when none.
SelectBefore(k) ==
    LET sel == {j \in BodySelects : j < k}
    IN  IF sel = {} THEN 0 ELSE CHOOSE j \in sel : \A h \in sel : h <= j

\* The tool that the loaded program gives the position of a position line.
PositionTool(line) ==
    LET key == packPos(Str(posPattern(line)[1]), Str(posPattern(line)[2]))[2]
    IN  IF key \in DOMAIN toolPos THEN toolPos[key] ELSE None

\* C17: every position line of the body follows, with no M19 in between, the
\* tool-select line of the tool the program gives that position, which is
\* immediately followed by the depth command of that tool; every tool-select
\* line but the first is immediately preceded by M19 and the first is not;
\* and a finished program ends with M19 exactly when a tool was selected,
\* then T00, then M30.
C17_BodyOrdering ==
    /\ \A k \in BodyPositions :
          LET j == SelectBefore(k)
          IN  /\ j > 0
              /\ Body[j] = PositionTool(Body[k])
              /\ \A h \in (j + 1)..(k - 1) : Body[h] # WriterLine.M19
              /\ Body[j] \in DOMAIN toolDepth
              /\ j + 1 < k
              /\ Body[j + 1] = toolDepth[Body[j]]
    /\ \A j \in BodySelects :
          IF SelectBefore(j) = 0
          THEN j = 1
          ELSE Body[j - 1] = WriterLine.M19
    /\ wpc = "done" =>
          /\ Len(Body) >= 2
          /\ Body[Len(Body)] = WriterLine.M30
          /\ Body[Len(Body) - 1] = WriterLine.T00
          /\ (BodySelects # {}) <=>
                (Len(Body) >= 3 /\ Body[Len(Body) - 2] = WriterLine.M19)

\* A finished program of three tool selections, T01, T02 and T01 again, the
\* second and third each after an M19.
C17_Witness ==
    /\ wpc = "done"
    /\ whdr > 0
    /\ Cardinality(BodySelects) = 3
    /\ Cardinality(BodyPositions) = 3
    /\ Len(Body) = 14
(***************************************************************************)
(* calc_outliers, calc_shift and the loop of output_prg as functions, for  *)
(* the handlers of the window that call them.                              *)
(***************************************************************************)
RECURSIVE outlierWhile(_, _, _, _, _)
\* lines 201-211: the while loop of one step, from index i
outlierWhile(w, d, k, st, t) ==
    IF WhileGuard(Len(d), st, k)
    THEN outlierWhile(OutlierPair(w, d, k, st, t), d, k + 1, st, t)
    ELSE w

RECURSIVE outlierSteps(_, _, _, _, _)
\* line 200: for step in range(1, lag+1)
outlierSteps(w, d, st, lg, t) ==
    IF st <= lg
    THEN outlierSteps(outlierWhile(w, d, 0, st, t), d, st + 1, lg, t)
    ELSE w

\* calc_outliers(data, lag, tol)
calc_outliers(d, lg, t) == outlierSteps(ZeroWeight(Len(d)), d, 1, lg, t)

\* The loops of calc_outliers, run step by step, return what the function
\* returns.
OutliersAgree == opc = "done" => weight = calc_outliers(data, lag, tol)

RECURSIVE samplePrg(_, _, _, _, _)
\* lines 251-261: the program sample from line k on; an exception of
\* parseNumber ends the call
samplePrg(lines, k, tool, ppos, n) ==
    IF k > Len(lines) THEN Ok(ppos)
    ELSE IF IsSampleLine(tool, lines[k]) /\ ~IsOk(prgLinePos(lines[k]))
    THEN prgLinePos(lines[k])
    ELSE LET t2 == IF toolPattern(lines[k]) THEN lines[k] ELSE tool
             p2 == IF IsSampleLine(tool, lines[k])
                   THEN Append(ppos, prgLinePos(lines[k])[2]) ELSE ppos
         IN  IF Len(p2) = n THEN Ok(p2)
             ELSE samplePrg(lines, k + 1, t2, p2, n)

RECURSIVE slideRecords(_, _, _, _, _)
\* lines 264-274: the window over the records from record k on
slideRecords(recs, k, dpos, ppos, n) ==
    IF k > Len(recs) THEN None
    ELSE IF ~IsOk(recordPos(recs[k])) THEN slideRecords(recs, k + 1, dpos, ppos, n)
    ELSE LET w == SlideWindow(dpos, recordPos(recs[k])[2], n)
             j == judgeShift(w, ppos)
         IN  IF ShiftFound(j) THEN j ELSE slideRecords(recs, k + 1, w, ppos, n)

\* calc_shift(prg_file, data, sample) on the lines of prg_file: the offsets
\* in thousandths, None, or the exception
calc_shift(lines, recs, n) ==
    LET ppos == samplePrg(lines, 1, None, <<>>, n)
    IN  IF IsOk(ppos) THEN Ok(slideRecords(recs, 1, <<>>, ppos[2], n)) ELSE ppos

\* calc_shift run line by line and record by record returns what the
\* function returns.
ShiftAgrees ==
    /\ spc = "done" => calc_shift(prg, records, sample) = Ok(shiftXY)
    /\ spc = "raised" => ~IsOk(calc_shift(prg, records, sample))
RECURSIVE writeHoles(_, _, _, _, _)
\* lines 388-406: the for loop from the k-th weight row on; w holds the
\* fields of the window
writeHoles(st, k, w, msk, th) ==
    IF k > Len(w.result) \/ st.err # None THEN st
    ELSE IF ~Selected(w.result[k], msk, th) THEN writeHoles(st, k + 1, w, msk, th)
    ELSE IF k > Len(w.data) THEN [st EXCEPT !.err = <<"IndexError">>]
    ELSE writeHoles(emitHole(st, w.data[k], w.toolPos, w.toolDepth), k + 1, w, msk, th)

\* lines 378-410 on the lines of the program file: the lines written and
\* the exception caught, if any
reworkProgram(lines, w, msk, th) ==
    LET st == writeHoles([curTool |-> None, out |-> Preamble(lines), err |-> None],
                         1, w, msk, th)
    IN  IF st.err = None
        THEN [st EXCEPT !.out = st.out \o Footer(st.curTool)]
        ELSE st

\* The fields of the window that output_prg reads.
Window ==
    [data |-> wdata, result |-> wresult, toolPos |-> toolPos, toolDepth |-> toolDepth]

\* output_prg run hole by hole writes what the function writes.
WriterAgrees ==
    LET r == reworkProgram(PrgFiles[prgFilePath], Window, mask, threshold)
    IN  /\ wpc = "done" => r.err = None /\ r.out = wout
        /\ (wpc = "raised" /\ werr # <<"FileNotFoundError">>) =>
              r.err = werr /\ r.out = wout
(***************************************************************************)
(* The main window: the four buttons and a click on a plotted point, each  *)
(* handler as one step.  The buttons are disabled while a handler runs and *)
(* its dialogs are modal, so no handler starts within another.  An         *)
(* exception that leaves a handler is kept in raised and the window goes   *)
(* on with the fields as the handler left them.                            *)
(***************************************************************************)
MaxClicks == 5

\* calc_shift(prg_file, data, sample=10)
DefaultSample == 10

\* The program files of the dialog: those of PrgFiles, and a program
\* without a tool-size line, which select_prg does not recognise.
GuiPrgFiles ==
    [ n \in (DOMAIN PrgFiles) \cup {"nosize.B00"} |->
        IF n \in DOMAIN PrgFiles THEN PrgFiles[n]
        ELSE <<PrgLine.T02, <<"M", "1", "8", "Z", "-", "2">>, PrgLine.P2>> ]

\* X/Y texts of a hole at machine coordinates (x, y), in mm.
GuiHole(x, y) == <<Txt(x * Unit), Txt(y * Unit)>>

\* Station 1 measured m thousandths, the other stations unused.
GuiFields(m) ==
    [c \in 1..18 |-> IF c = 2 THEN Txt(floatOfDepth(m)) ELSE Txt(floatOfDepth(0))]

\* A panel of three holes, the first at the program position X002Y001
\* shifted by (10, 4) and mirrored, the third at no program position, and a
\* second run of one hole.
GuiRows ==
    << Row(TimeOf(1), 10, GuiHole(12, 3), GuiFields(1000)),
       Row(TimeOf(2), 20, GuiHole(11, 3), GuiFields(1500)),
       Row(TimeOf(3), 30, GuiHole(12, 5), GuiFields(1000)),
       Row(TimeOf(4), 5, GuiHole(12, 3), GuiFields(1000)) >>

\* A log whose second row ends after the counter.
ShortRows ==
    << Row(TimeOf(1), 10, GuiHole(12, 3), GuiFields(1000)),
       <<Str(TimeOf(2)), Txt(11)>> >>

GuiDisk == Disk(File(GoodHeader, GuiRows), File(GoodHeader, ShortRows))

\* The selections of the log dialog: either log, or a file of another name.
GuiLogs == {<<"d/pos0101.dat">>, <<"d/pos0102.dat">>, <<"d/readme.dat">>}

InitGui ==
    /\ WinIdle
    /\ wpc = "idle"
    /\ widx = 0
    /\ wcur = None
    /\ wout = <<>>
    /\ whdr = 0
    /\ threshold \in 1..MaxLag
    /\ mask \in Masks
    /\ werr = None
    /\ CodecIdle
    /\ OutIdle
    /\ LogIdle
    /\ ShiftIdle
    /\ PrgIdle

\* A handler may start: the window was opened and none of the operations
\* above is being run on its own.
Ready ==
    /\ clicks < MaxClicks
    /\ cpc = "idle" /\ opc = "idle" /\ lpc = "idle"
    /\ spc = "idle" /\ ppc = "idle" /\ wpc = "idle"

\* line 328: one of the three dictionaries is empty
Unrecognised(r) ==
    DOMAIN r.tool_size = {} \/ DOMAIN r.tools = {} \/ DOMAIN r.m18 = {}

\* lines 326-335: a program file was chosen and loadPrgData returned r
select_prg(f, r) ==
    /\ toolSize' = r.tool_size
    /\ toolPos' = r.tools
    /\ toolDepth' = r.m18
    /\ prgFilePath' = IF Unrecognised(r) THEN "" ELSE f
    /\ posShifted' = FALSE
    /\ wresult' = <<>>
    /\ raised' = None
    /\ UNCHANGED <<wdata, orig, applied, written, plotted>>

\* lines 319-336: the button of the program
SelectPrg ==
    /\ Ready
    /\ clicks' = clicks + 1
    /\ \E f \in DOMAIN GuiPrgFiles : \E r \in {loadPrgData(GuiPrgFiles[f])} :
          IsOk(r) /\ select_prg(f, r[2])
    /\ UNCHANGED <<codecVars, outVars, logVars, shiftVars, prgVars, writerVars>>

\* lines 321-325, 340-344: a file dialog is cancelled
CancelDialog ==
    /\ Ready
    /\ clicks' = clicks + 1
    /\ raised' = None
    /\ UNCHANGED <<wdata, wresult, toolPos, toolSize, toolDepth, posShifted, prgFilePath,
                   orig, applied, written, plotted,
                   codecVars, outVars, logVars, shiftVars, prgVars, writerVars>>

\* lines 350-355: the records from the chosen start to the next start
sliceRun(d, fl, key) ==
    LET start == fl[key]
        later == {fl[k] : k \in DOMAIN fl} \cap ((start + 1)..(Len(d) - 1))
        end   == IF later = {} THEN Len(d)
                 ELSE CHOOSE e \in later : \A h \in later : e <= h
    IN  SubSeq(d, start + 1, end)

\* lines 345-367: files were chosen and loadBackDrillData returned r, or
\* raised; pick is the start time chosen in the second dialog, or one that
\* is no key when that dialog is cancelled or has nothing to offer
select_data(r, pick) ==
    /\ wdata' = IF IsOk(r) /\ pick \in DOMAIN r[2][2]
                THEN sliceRun(r[2][1], r[2][2], pick) ELSE <<>>
    /\ orig' = wdata'
    /\ applied' = <<>>
    /\ posShifted' = FALSE
    /\ wresult' = <<>>
    /\ raised' = None
    /\ UNCHANGED <<toolPos, toolSize, toolDepth, prgFilePath, written, plotted>>

\* The start times the second dialog offers, and its cancellation.
Picks(r) == (IF IsOk(r) THEN DOMAIN r[2][2] ELSE {}) \cup {None}

\* lines 338-368: the button of the log
SelectData ==
    /\ Ready
    /\ clicks' = clicks + 1
    /\ \E fs \in GuiLogs : \E r \in {loadBackDrillData(fs, GuiDisk)} :
          \E pick \in Picks(r) : select_data(r, pick)
    /\ UNCHANGED <<codecVars, outVars, logVars, shiftVars, prgVars, writerVars>>

\* A cell that holds a float.
IsNum(c) == c # None /\ c[1] = "num"

\* lines 432-433 for one record: r[3] - dx, then -r[4] + dy, the offsets in
\* thousandths; a cell that is no number raises TypeError after the
\* assignments before it
shiftRecord(r, dx, dy) ==
    IF ~IsNum(r[4]) THEN [rec |-> r, ok |-> FALSE]
    ELSE IF ~IsNum(r[5])
    THEN [rec |-> [r EXCEPT ![4] = Num(r[4][2] - dx * (Unit \div Scale))], ok |-> FALSE]
    ELSE [rec |-> [r EXCEPT ![4] = Num(r[4][2] - dx * (Unit \div Scale)),
                            ![5] = Num(dy * (Unit \div Scale) - r[5][2])],
          ok |-> TRUE]

\* lines 431-433: the loop over the records
shiftRecords(d, dx, dy) ==
    LET bad == {k \in 1..Len(d) : ~IsNum(d[k][4]) \/ ~IsNum(d[k][5])}
        stop == IF bad = {} THEN Len(d) ELSE CHOOSE k \in bad : \A h \in bad : k <= h
    IN  [data |-> [k \in 1..Len(d) |-> IF k <= stop THEN shiftRecord(d[k], dx, dy).rec
                                       ELSE d[k]],
         ok |-> bad = {}]

\* lines 424-428: the offsets in thousandths, (0, 0) when none was found
shiftPos(cs) == IF cs[2] = None THEN <<0, 0>> ELSE cs[2]

\* lines 418-421: nothing to plot
ShowNothing ==
    /\ Ready
    /\ wdata = <<>> \/ DOMAIN toolPos = {}
    /\ clicks' = clicks + 1
    /\ raised' = None
    /\ UNCHANGED <<wdata, wresult, toolPos, toolSize, toolDepth, posShifted, prgFilePath,
                   orig, applied, written, plotted,
                   codecVars, outVars, logVars, shiftVars, prgVars, writerVars>>

\* lines 422-437 raise: open('') when no program path is shown, or a record
\* without a numeric X/Y in the loop of line 431, which leaves the records
\* before it shifted
ShowRaise ==
    /\ Ready
    /\ wdata # <<>> /\ DOMAIN toolPos # {}
    /\ ~posShifted
    /\ clicks' = clicks + 1
    /\ IF prgFilePath = ""
       THEN /\ raised' = <<"FileNotFoundError">>
            /\ UNCHANGED <<wdata, applied>>
       ELSE \E cs \in {calc_shift(GuiPrgFiles[prgFilePath], wdata, DefaultSample)} :
               /\ IsOk(cs)
               /\ \E s \in {shiftRecords(wdata, shiftPos(cs)[1], shiftPos(cs)[2])} :
                     /\ ~s.ok
                     /\ wdata' = s.data
                     /\ applied' = Append(applied, shiftPos(cs))
                     /\ raised' = <<"TypeError">>
    /\ UNCHANGED <<wresult, toolPos, toolSize, toolDepth, posShifted, prgFilePath,
                   orig, written, plotted,
                   codecVars, outVars, logVars, shiftVars, prgVars, writerVars>>

\* lines 422-477: the shift, unless posShifted, then the weights and the
\* points of the plot, one for each weight row
ShowPlot ==
    /\ Ready
    /\ wdata # <<>> /\ DOMAIN toolPos # {}
    /\ clicks' = clicks + 1
    /\ IF posShifted
       THEN UNCHANGED <<wdata, applied, posShifted>>
       ELSE /\ prgFilePath # ""
            /\ \E cs \in {calc_shift(GuiPrgFiles[prgFilePath], wdata, DefaultSample)} :
                  /\ IsOk(cs)
                  /\ \E s \in {shiftRecords(wdata, shiftPos(cs)[1], shiftPos(cs)[2])} :
                        /\ s.ok
                        /\ wdata' = s.data
                        /\ applied' = Append(applied, shiftPos(cs))
                        /\ posShifted' = TRUE
    /\ \E t \in {floatOfTol(10), floatOfTol(480)} :
          wresult' = calc_outliers(wdata', threshold, t)
    /\ plotted' = Len(wresult')
    /\ raised' = None
    /\ UNCHANGED <<toolPos, toolSize, toolDepth, prgFilePath, orig, written,
                   codecVars, outVars, logVars, shiftVars, prgVars, writerVars>>

\* lines 370-415: the rework program is written; chosen is whether the
\* save dialog returned a path.  An exception is caught at line 413 and
\* the file keeps the lines written before it.
OutputPrg ==
    /\ Ready
    /\ clicks' = clicks + 1
    /\ raised' = None
    /\ IF wresult = <<>>
       THEN UNCHANGED written
       ELSE \E chosen \in BOOLEAN :
               IF ~chosen THEN UNCHANGED written
               ELSE IF prgFilePath = "" THEN written' = <<>>
               ELSE written' = reworkProgram(GuiPrgFiles[prgFilePath], Window,
                                             mask, threshold).out
    /\ UNCHANGED <<wdata, wresult, toolPos, toolSize, toolDepth, posShifted, prgFilePath,
                   orig, applied, plotted,
                   codecVars, outVars, logVars, shiftVars, prgVars, writerVars>>

\* lines 485-518: a click on the point that holds index p; self.data[index]
\* and self.result[index] raise IndexError beyond the end of the list
Clicked ==
    /\ Ready
    /\ clicks' = clicks + 1
    /\ \E p \in 0..(plotted - 1) :
          raised' = IF p >= Len(wdata) \/ p >= Len(wresult)
                    THEN <<"IndexError">> ELSE None
    /\ UNCHANGED <<wdata, wresult, toolPos, toolSize, toolDepth, posShifted, prgFilePath,
                   orig, applied, written, plotted,
                   codecVars, outVars, logVars, shiftVars, prgVars, writerVars>>

NextGui ==
    \/ SelectPrg
    \/ SelectData
    \/ CancelDialog
    \/ ShowNothing
    \/ ShowRaise
    \/ ShowPlot
    \/ OutputPrg
    \/ Clicked

SpecGui == InitGui /\ [][NextGui]_vars
(***************************************************************************)
(* Properties of the window.                                               *)
(***************************************************************************)
\* The records of the loaded log that have a numeric X and Y.
NumericRecords == {k \in 1..Len(orig) : IsNum(orig[k][4]) /\ IsNum(orig[k][5])}

\* The records are those of the log, each moved by one and the same
\* transformation (X - dx, -Y + dy).
OneTransformation ==
    /\ Len(wdata) = Len(orig)
    /\ \A k \in NumericRecords : IsNum(wdata[k][4]) /\ IsNum(wdata[k][5])
    /\ \A j, k \in NumericRecords :
          /\ orig[j][4][2] - wdata[j][4][2] = orig[k][4][2] - wdata[k][4][2]
          /\ orig[j][5][2] + wdata[j][5][2] = orig[k][5][2] + wdata[k][5][2]

\* C19: whatever buttons were pressed, the records of the loaded log are
\* as parsed until the first plot, and from then on each record's X/Y is
\* the parsed machine coordinate transformed exactly once, by one (dx, dy)
\* for all records: (X - dx, -Y + dy).
C19_ShiftedAtMostOnce ==
    IF applied = <<>> THEN wdata = orig ELSE OneTransformation

\* The weight matrix is empty or has one row for each loaded record.
WeightsParallel == wresult = <<>> \/ Len(wresult) = Len(wdata)

\* C20: the weight matrix is empty or has one row for each loaded record,
\* and neither the writer nor the click on a plotted point indexes a record
\* without a weight row or a weight row without a record (IndexError).
C20_WeightsParallelToRecords ==
    /\ WeightsParallel
    /\ raised # <<"IndexError">>

\* The panel of three holes was plotted, the program loaded again and the
\* panel plotted again.
PlottedTwice ==
    /\ Len(applied) = 2
    /\ Len(orig) = 3
    /\ posShifted

(***************************************************************************)
(* The program as a whole: one of its operations is run.                   *)
(***************************************************************************)
Init ==
    InitCodec \/ InitOutliers \/ InitLog \/ InitShift \/ InitPrg \/ InitWriter \/ InitGui

Next ==
    NextCodec \/ NextOutliers \/ NextLog \/ NextShift \/ NextPrg \/ NextWriter \/ NextGui

Spec == Init /\ [][Next]_vars

====
